---- MODULE Spec2Model ----
(***************************************************************************)
(* Boolean-circuit SHA-256 over GF(2): the engine of sha256_gf2/gf2.rs     *)
(* (update / finalize / sha256_compress) and the word gadgets of           *)
(* sha256_gf2/gf2_utils.rs and ppa/*.rs, evaluated on concrete 0/1         *)
(* assignments.                                                            *)
(*                                                                         *)
(* A Variable of the circuit is modelled by the bit it evaluates to.  A    *)
(* Sha256Word is a sequence of 32 bits; Rust index i is TLA+ index i + 1,  *)
(* so index 1 is the most-significant bit.  A u32 value is kept as the     *)
(* pair <<high 16 bits, low 16 bits>> because TLC integers are 32-bit      *)
(* signed.                                                                 *)
(***************************************************************************)
EXTENDS Integers, Sequences, FiniteSets, TLC

VARIABLES
    data,       \* SHA256GF2.data: the message buffer, a sequence of bits
    data_len,   \* the local data_len of the last finalize() call, 0 before
    digest,     \* the value returned by the last finalize(), <<>> before
    status,     \* outcome of the last call: "Accumulating" (new, update),
                \* "Finalized" (finalize returned) or "Panicked" (finalize panicked)
    n_updates,  \* number of update() calls made so far
    n_finals,   \* number of finalize() calls made so far
    fed,        \* history: every bit handed to update() so far, in call order
    opnd,       \* gadget harness: the three input words a, b, c
    pc,         \* gadget harness: "ready", or the gadget that was applied
    args,       \* gadget harness: further inputs drawn by the applied gadget
    ret         \* gadget harness: what the applied gadget returned

engine_vars == <<data, data_len, digest, status, n_updates, n_finals, fed>>
gadget_vars == <<opnd, pc, args, ret>>
vars == <<data, data_len, digest, status, n_updates, n_finals, fed, opnd, pc, args, ret>>

(***************************************************************************)
(* Bounds of the model.                                                    *)
(***************************************************************************)
\* how many of the round constants serve as operand words of the gadgets
NumOperands == 3
\* how many of the initial state words serve as extra operands of chains
NumChainOperands == 2
\* how many words the harness hands to sum_all at most
MaxSummands == 5
\* how many calls (update or finalize) one engine instance receives
MaxCalls == 3

Bit == {0, 1}

(***************************************************************************)
(* The four capabilities of the circuit builder, on GF(2) values.          *)
(***************************************************************************)
api_constant(v) == v % 2
api_add(x, y) == (x + y) % 2
api_mul(x, y) == x * y
api_sub(x, y) == (x - y) % 2

(***************************************************************************)
(* u32 / u64 helpers.                                                      *)
(***************************************************************************)
Pow2(n) == 2 ^ n

\* (value >> k) & 1 for a u32 kept as <<hi, lo>>
U32BitAt(value, k) ==
    IF k >= 16 THEN (value[1] \div Pow2(k - 16)) % 2
    ELSE (value[2] \div Pow2(k)) % 2

\* (value >> k) & 1 for a u64 below 2^31
U64BitAt(value, k) ==
    IF k >= 31 THEN 0 ELSE (value \div Pow2(k)) % 2

\* materialise a 32-entry array
Word(f) == SubSeq(f, 1, 32)

\* a u32 constant 0xHHHHLLLL is written <<\HHHHH, \HLLLL>>
SHA256_INIT_STATE == <<
    <<\H6a09, \He667>>, <<\Hbb67, \Hae85>>, <<\H3c6e, \Hf372>>, <<\Ha54f, \Hf53a>>,
    <<\H510e, \H527f>>, <<\H9b05, \H688c>>, <<\H1f83, \Hd9ab>>, <<\H5be0, \Hcd19>> >>

SHA256_K == <<
    <<\H428a, \H2f98>>, <<\H7137, \H4491>>, <<\Hb5c0, \Hfbcf>>, <<\He9b5, \Hdba5>>,
    <<\H3956, \Hc25b>>, <<\H59f1, \H11f1>>, <<\H923f, \H82a4>>, <<\Hab1c, \H5ed5>>,
    <<\Hd807, \Haa98>>, <<\H1283, \H5b01>>, <<\H2431, \H85be>>, <<\H550c, \H7dc3>>,
    <<\H72be, \H5d74>>, <<\H80de, \Hb1fe>>, <<\H9bdc, \H06a7>>, <<\Hc19b, \Hf174>>,
    <<\He49b, \H69c1>>, <<\Hefbe, \H4786>>, <<\H0fc1, \H9dc6>>, <<\H240c, \Ha1cc>>,
    <<\H2de9, \H2c6f>>, <<\H4a74, \H84aa>>, <<\H5cb0, \Ha9dc>>, <<\H76f9, \H88da>>,
    <<\H983e, \H5152>>, <<\Ha831, \Hc66d>>, <<\Hb003, \H27c8>>, <<\Hbf59, \H7fc7>>,
    <<\Hc6e0, \H0bf3>>, <<\Hd5a7, \H9147>>, <<\H06ca, \H6351>>, <<\H1429, \H2967>>,
    <<\H27b7, \H0a85>>, <<\H2e1b, \H2138>>, <<\H4d2c, \H6dfc>>, <<\H5338, \H0d13>>,
    <<\H650a, \H7354>>, <<\H766a, \H0abb>>, <<\H81c2, \Hc92e>>, <<\H9272, \H2c85>>,
    <<\Ha2bf, \He8a1>>, <<\Ha81a, \H664b>>, <<\Hc24b, \H8b70>>, <<\Hc76c, \H51a3>>,
    <<\Hd192, \He819>>, <<\Hd699, \H0624>>, <<\Hf40e, \H3585>>, <<\H106a, \Ha070>>,
    <<\H19a4, \Hc116>>, <<\H1e37, \H6c08>>, <<\H2748, \H774c>>, <<\H34b0, \Hbcb5>>,
    <<\H391c, \H0cb3>>, <<\H4ed8, \Haa4a>>, <<\H5b9c, \Hca4f>>, <<\H682e, \H6ff3>>,
    <<\H748f, \H82ee>>, <<\H78a5, \H636f>>, <<\H84c8, \H7814>>, <<\H8cc7, \H0208>>,
    <<\H90be, \Hfffa>>, <<\Ha450, \H6ceb>>, <<\Hbef9, \Ha3f7>>, <<\Hc671, \H78f2>> >>

u32_to_bit(value) ==
    Word([j \in 1..32 |-> api_constant(U32BitAt(value, 31 - (j - 1)))])

u64_to_bit(value) ==
    SubSeq([j \in 1..64 |-> api_constant(U64BitAt(value, 63 - (j - 1)))], 1, 64)

(***************************************************************************)
(* Word gates.                                                             *)
(***************************************************************************)
xor(a, b) == Word([j \in 1..32 |-> api_add(a[j], b[j])])
and(a, b) == Word([j \in 1..32 |-> api_mul(a[j], b[j])])
not(a) == Word([j \in 1..32 |-> api_sub(1, a[j])])

\* <[T]>::reverse on a 32-entry array
reverse(w) == Word([j \in 1..32 |-> w[33 - j]])

(***************************************************************************)
(* Statement order.  Do(<<s1, ..., sn>>) is the value of the last statement *)
(* sn, with s1 .. sn evaluated in this order, as the program computes them. *)
(***************************************************************************)
Do(statements) == statements[Len(statements)]

(***************************************************************************)
(* add_const: ripple addition of a compile-time constant.                   *)
(***************************************************************************)
\* faulty variant: for a constant bit 1 the new carry leaves out `+ a[i]`
add_const_step_carry_without_a(a, b, st, i) ==
    LET c == st[1]
        ci == st[2]
    IN IF U32BitAt(b, 31 - i) = 1
       THEN LET p == api_add(a[i + 1], 1)
                sum_bit == api_add(p, ci)
                ci1 == api_mul(ci, p)
            IN <<[c EXCEPT ![i + 1] = sum_bit], ci1>>
       ELSE LET sum_bit == api_add(c[i + 1], ci)
                ci1 == api_mul(ci, a[i + 1])
            IN <<[c EXCEPT ![i + 1] = sum_bit], ci1>>

\* one iteration of `for i in (0..n).rev()` on st = <<c, ci>>
add_const_step(a, b, st, i) ==
    LET c == st[1]
        ci == st[2]
    IN IF U32BitAt(b, 31 - i) = 1
       THEN LET p == api_add(a[i + 1], 1)
                sum_bit == api_add(p, ci)
                ci1 == api_mul(ci, p)
                ci2 == api_add(ci1, a[i + 1])
            IN <<[c EXCEPT ![i + 1] = sum_bit], ci2>>
       ELSE LET sum_bit == api_add(c[i + 1], ci)
                ci1 == api_mul(ci, a[i + 1])
            IN <<[c EXCEPT ![i + 1] = sum_bit], ci1>>

RECURSIVE add_const_loop(_, _, _, _, _)
\* `for i in (0..n).rev()`, run for i from hi - 1 down to lo: the range is
\* split in two halves run one after the other
add_const_loop(a, b, st, lo, hi) ==
    IF hi <= lo THEN st
    ELSE IF hi - lo = 1 THEN add_const_step(a, b, st, lo)
    ELSE LET mid == (lo + hi) \div 2
             upper == add_const_loop(a, b, st, mid, hi)
         IN Do(<<upper, add_const_loop(a, b, upper, lo, mid)>>)

add_const(a, b) ==
    LET n == Len(a)
        c == a
        ci == api_constant(0)
    IN add_const_loop(a, b, <<c, ci>>, 0, n)[1]

(***************************************************************************)
(* Brent-Kung: 8 chained 4-bit blocks.                                      *)
(***************************************************************************)
\* faulty variant: c[3] takes p0p1 * c[0], without p[2]
brent_kung_adder_4_bits_c3_without_p2(a, b, carry_in) ==
    LET g == SubSeq([i \in 1..4 |-> api_mul(a[i], b[i])], 1, 4)
        p == SubSeq([i \in 1..4 |-> api_add(a[i], b[i])], 1, 4)
        p1g0 == api_mul(p[2], g[1])
        p0p1 == api_mul(p[1], p[2])
        p2p3 == api_mul(p[3], p[4])
        g10 == api_add(g[2], p1g0)
        g20 == api_add(g[3], api_mul(p[3], g10))
        g30 == api_add(g[4], api_mul(p[4], g20))
        c0 == carry_in
        c1 == api_add(g[1], api_mul(p[1], c0))
        c2 == api_add(g10, api_mul(p0p1, c0))
        c3 == api_add(g20, api_mul(p0p1, c0))
        c4 == api_add(g30, api_mul(api_mul(p0p1, p2p3), c0))
        c == <<c0, c1, c2, c3, c4>>
        sum == SubSeq([i \in 1..4 |-> api_add(p[i], c[i])], 1, 4)
    IN Do(<<g, p, c, sum, <<sum, c4>> >>)

\* faulty variant: the block's carry-out ignores the carry-in (c4 = g30)
brent_kung_adder_4_bits_carry_out_without_carry_in(a, b, carry_in) ==
    LET g == SubSeq([i \in 1..4 |-> api_mul(a[i], b[i])], 1, 4)
        p == SubSeq([i \in 1..4 |-> api_add(a[i], b[i])], 1, 4)
        p1g0 == api_mul(p[2], g[1])
        p0p1 == api_mul(p[1], p[2])
        g10 == api_add(g[2], p1g0)
        g20 == api_add(g[3], api_mul(p[3], g10))
        g30 == api_add(g[4], api_mul(p[4], g20))
        c0 == carry_in
        c1 == api_add(g[1], api_mul(p[1], c0))
        c2 == api_add(g10, api_mul(p0p1, c0))
        c3 == api_add(g20, api_mul(p0p1, api_mul(p[3], c0)))
        c4 == g30
        c == <<c0, c1, c2, c3, c4>>
        sum == SubSeq([i \in 1..4 |-> api_add(p[i], c[i])], 1, 4)
    IN Do(<<g, p, c, sum, <<sum, c4>> >>)

\* a, b: 4 bits, little-endian; returns <<sum, c[4]>>
brent_kung_adder_4_bits(a, b, carry_in) ==
    LET g == SubSeq([i \in 1..4 |-> api_mul(a[i], b[i])], 1, 4)
        p == SubSeq([i \in 1..4 |-> api_add(a[i], b[i])], 1, 4)
        p1g0 == api_mul(p[2], g[1])
        p0p1 == api_mul(p[1], p[2])
        p2p3 == api_mul(p[3], p[4])
        g10 == api_add(g[2], p1g0)
        g20 == api_add(g[3], api_mul(p[3], g10))
        g30 == api_add(g[4], api_mul(p[4], g20))
        c0 == carry_in
        c1 == api_add(g[1], api_mul(p[1], c0))
        c2 == api_add(g10, api_mul(p0p1, c0))
        c3 == api_add(g20, api_mul(p0p1, api_mul(p[3], c0)))
        c4 == api_add(g30, api_mul(api_mul(p0p1, p2p3), c0))
        c == <<c0, c1, c2, c3, c4>>
        sum == SubSeq([i \in 1..4 |-> api_add(p[i], c[i])], 1, 4)
    IN Do(<<g, p, c, sum, <<sum, c4>> >>)

RECURSIVE brentkung_blocks(_, _, _, _, _)
\* `for i in 0..8`, from block i on; c holds the sum bits of blocks 0..i-1
\* (c[start..end].copy_from_slice(&sum) fills the blocks in this order)
brentkung_blocks(a, b, i, c, ci) ==
    IF i >= 8 THEN c
    ELSE LET start == i * 4
             end == start + 4
             r == brent_kung_adder_4_bits(SubSeq(a, start + 1, end),
                                          SubSeq(b, start + 1, end), ci)
             ci_next == r[2]
             c_next == c \o r[1]
         IN Do(<<r, ci_next, c_next, brentkung_blocks(a, b, i + 1, c_next, ci_next)>>)

add_brentkung(a0, b0) ==
    LET a == reverse(a0)
        b == reverse(b0)
        c == brentkung_blocks(a, b, 0, <<>>, api_constant(0))
    IN Do(<<a, b, c, reverse(c)>>)

(***************************************************************************)
(* Kogge-Stone, serial variant (branch on the index).                      *)
(***************************************************************************)
\* faulty variant: the propagate bits are combined by xor
carry_combine_p_xor(hi, lo) ==
    <<api_add(hi[1], api_mul(hi[2], lo[1])), api_add(hi[2], lo[2])>>

\* the body of the inner loops, on hi = (g_prefix[i], p_prefix[i]) and
\* lo = (g_prefix[i - gap], p_prefix[i - gap]):
\* g_next[i] = g_prefix[i] + p_prefix[i] * g_prefix[i - gap];
\* p_next[i] = p_prefix[i] * p_prefix[i - gap]
carry_combine(hi, lo) ==
    <<api_add(hi[1], api_mul(hi[2], lo[1])), api_mul(hi[2], lo[2])>>

\* faulty variant: the branch reads `i > gap` in place of `i >= gap`
koggestone_round_strict_branch(g_prefix, p_prefix, gap) ==
    LET g_next == Word([j \in 1..32 |->
                    IF j - 1 > gap
                    THEN api_add(g_prefix[j], api_mul(p_prefix[j], g_prefix[j - gap]))
                    ELSE g_prefix[j]])
        p_next == Word([j \in 1..32 |->
                    IF j - 1 > gap
                    THEN api_mul(p_prefix[j], p_prefix[j - gap])
                    ELSE p_prefix[j]])
    IN <<g_next, p_next>>

\* one pass of `for i in 0..32` at the given gap
koggestone_round(g_prefix, p_prefix, gap) ==
    LET g_next == Word([j \in 1..32 |->
                    IF j - 1 >= gap
                    THEN api_add(g_prefix[j], api_mul(p_prefix[j], g_prefix[j - gap]))
                    ELSE g_prefix[j]])
        p_next == Word([j \in 1..32 |->
                    IF j - 1 >= gap
                    THEN api_mul(p_prefix[j], p_prefix[j - gap])
                    ELSE p_prefix[j]])
    IN <<g_next, p_next>>

RECURSIVE koggestone_while(_, _, _)
\* `while gap < 32 { ...; gap *= 2 }`
koggestone_while(g_prefix, p_prefix, gap) ==
    IF gap < 32
    THEN LET r == koggestone_round(g_prefix, p_prefix, gap)
         IN Do(<<r, koggestone_while(r[1], r[2], gap * 2)>>)
    ELSE <<g_prefix, p_prefix>>

add_koggestone_32_bits(a0, b0) ==
    LET a == reverse(a0)
        b == reverse(b0)
        g == Word([j \in 1..32 |-> api_mul(a[j], b[j])])
        p == Word([j \in 1..32 |-> api_add(a[j], b[j])])
        gp == koggestone_while(g, p, 1)
        g_prefix == gp[1]
        p_prefix == gp[2]
        carry0 == api_constant(0)
        \* carry has 33 entries: carry[0], then carry[i + 1] for i in 0..32
        carry == <<carry0>> \o
                 Word([j \in 1..32 |-> api_add(g_prefix[j], api_mul(p_prefix[j], carry0))])
        sum == Word([j \in 1..32 |-> api_add(p[j], carry[j])])
    IN Do(<<a, b, g, p, gp, carry, sum, reverse(sum)>>)

(***************************************************************************)
(* Kogge-Stone, parallel variant (word-level shifts).                      *)
(***************************************************************************)
shift_left(input, shift) ==
    Word([j \in 1..32 |-> IF j - 1 >= shift THEN input[j - shift] ELSE api_constant(0)])

\* faulty variant: the group propagate is not combined (p_next = p)
prefix_step_without_p_combine(g, p, shift) ==
    LET g_shift == shift_left(g, shift)
        p_and_gshift == and(p, g_shift)
        g_next == xor(g, p_and_gshift)
    IN <<g_next, p>>

\* faulty variant: the propagate bits below the shift are kept
prefix_step_keeping_low_p(g, p, shift) ==
    LET g_shift == shift_left(g, shift)
        p_and_gshift == and(p, g_shift)
        g_next == xor(g, p_and_gshift)
        p_shift == shift_left(p, shift)
        p_next == Word([j \in 1..32 |-> IF j - 1 >= shift THEN and(p, p_shift)[j] ELSE p[j]])
    IN <<g_next, p_next>>

prefix_step(g, p, shift) ==
    LET g_shift == shift_left(g, shift)
        p_and_gshift == and(p, g_shift)
        g_next == xor(g, p_and_gshift)
        p_shift == shift_left(p, shift)
        p_next == and(p, p_shift)
    IN <<g_next, p_next>>

RECURSIVE prefix_steps(_, _, _)
\* `for &shift in [1, 2, 4, 8, 16].iter()`
prefix_steps(g_prefix, p_prefix, shifts) ==
    IF shifts = <<>> THEN <<g_prefix, p_prefix>>
    ELSE LET r == prefix_step(g_prefix, p_prefix, Head(shifts))
         IN Do(<<r, prefix_steps(r[1], r[2], Tail(shifts))>>)

add_koggestone_32_bits_prallel(a0, b0) ==
    LET a == reverse(a0)
        b == reverse(b0)
        p == xor(a, b)
        g == and(a, b)
        gp == prefix_steps(g, p, <<1, 2, 4, 8, 16>>)
        carry == shift_left(gp[1], 1)
        sum == xor(p, carry)
    IN reverse(sum)

(***************************************************************************)
(* Han-Carlson, 32 bits.                                                    *)
(***************************************************************************)
\* one pass of `for i in 0..32` at the given gap: even indices only
hancarlson_round(g_prefix, p_prefix, gap) ==
    LET g_next == Word([j \in 1..32 |->
                    IF j - 1 >= gap /\ (j - 1) % 2 = 0
                    THEN api_add(g_prefix[j], api_mul(p_prefix[j], g_prefix[j - gap]))
                    ELSE g_prefix[j]])
        p_next == Word([j \in 1..32 |->
                    IF j - 1 >= gap /\ (j - 1) % 2 = 0
                    THEN api_mul(p_prefix[j], p_prefix[j - gap])
                    ELSE p_prefix[j]])
    IN <<g_next, p_next>>

RECURSIVE hancarlson_while(_, _, _)
hancarlson_while(g_prefix, p_prefix, gap) ==
    IF gap < 32
    THEN LET r == hancarlson_round(g_prefix, p_prefix, gap)
         IN Do(<<r, hancarlson_while(r[1], r[2], gap * 2)>>)
    ELSE <<g_prefix, p_prefix>>

RECURSIVE hancarlson_carry_without_propagate(_, _, _, _, _)
\* faulty variant: an odd index takes its generate alone as carry
hancarlson_carry_without_propagate(g, p, g_prefix, i, carry) ==
    IF i > 32 THEN carry
    ELSE LET carry_i == IF (i - 1) % 2 = 0 THEN g_prefix[i] ELSE g[i]
             carry_next == Append(carry, carry_i)
         IN Do(<<carry_next,
                 hancarlson_carry_without_propagate(g, p, g_prefix, i + 1, carry_next)>>)

RECURSIVE hancarlson_carry(_, _, _, _, _)
\* `for i in 1..=32`, from i on; carry holds carry[0..i-1]
hancarlson_carry(g, p, g_prefix, i, carry) ==
    IF i > 32 THEN carry
    ELSE LET carry_i == IF (i - 1) % 2 = 0
                        THEN g_prefix[i]
                        ELSE api_add(g[i], api_mul(p[i], carry[i]))
             carry_next == Append(carry, carry_i)
         IN Do(<<carry_next, hancarlson_carry(g, p, g_prefix, i + 1, carry_next)>>)

add_hancarlson_32_bits(a0, b0) ==
    LET a == reverse(a0)
        b == reverse(b0)
        g == Word([j \in 1..32 |-> api_mul(a[j], b[j])])
        p == Word([j \in 1..32 |-> api_add(a[j], b[j])])
        gp == hancarlson_while(g, p, 1)
        carry == hancarlson_carry(g, p, gp[1], 1, <<api_constant(0)>>)
        sum == Word([j \in 1..32 |-> api_add(p[j], carry[j])])
    IN Do(<<a, b, g, p, gp, carry, sum, reverse(sum)>>)

(***************************************************************************)
(* Han-Carlson in 4-bit blocks chained by a ripple carry.                  *)
(***************************************************************************)
\* a, b: 4 bits, little-endian; returns <<sum, carry[4]>>
han_carlson_adder_4_bits(a, b, carry_in) ==
    LET g == SubSeq([i \in 1..4 |-> api_mul(a[i], b[i])], 1, 4)
        p == SubSeq([i \in 1..4 |-> api_add(a[i], b[i])], 1, 4)
        \* round 1: gap = 1, i = 2
        p2_and_g1 == api_mul(p[3], g[2])
        g_prefix2_r1 == api_add(g[3], p2_and_g1)
        p_prefix2_r1 == api_mul(p[3], p[2])
        \* round 2: gap = 2, i = 2
        p2_and_g0 == api_mul(p_prefix2_r1, g[1])
        g_prefix2 == api_add(g_prefix2_r1, p2_and_g0)
        g_prefix == <<g[1], g[2], g_prefix2, g[4]>>
        carry0 == carry_in
        carry1 == g_prefix[1]
        p1_and_c1 == api_mul(p[2], carry1)
        carry2 == api_add(g[2], p1_and_c1)
        carry3 == g_prefix[3]
        p3_and_c3 == api_mul(p[4], carry3)
        carry4 == api_add(g[4], p3_and_c3)
        carry == <<carry0, carry1, carry2, carry3, carry4>>
        sum == SubSeq([i \in 1..4 |-> api_add(p[i], carry[i])], 1, 4)
    IN <<sum, carry4>>

RECURSIVE hancarlson_blocks(_, _, _, _, _)
\* `for i in 0..8`, from block i on; c holds the sum bits of blocks 0..i-1
hancarlson_blocks(a, b, i, c, ci) ==
    IF i >= 8 THEN c
    ELSE LET start == i * 4
             end == start + 4
             r == han_carlson_adder_4_bits(SubSeq(a, start + 1, end),
                                           SubSeq(b, start + 1, end), ci)
         IN hancarlson_blocks(a, b, i + 1, c \o r[1], r[2])

add_hancarlson(a0, b0) ==
    reverse(hancarlson_blocks(reverse(a0), reverse(b0), 0, <<>>, api_constant(0)))

(***************************************************************************)
(* The adder every composition point uses.                                 *)
(***************************************************************************)
add(a, b) == add_koggestone_32_bits_prallel(a, b)

(***************************************************************************)
(* Ripple adder.                                                            *)
(***************************************************************************)
\* faulty variant: the carry leaves out the term b * carry
bit_add_with_carry_without_bc(a, b, carry) ==
    LET sum == api_add(api_add(a, b), carry)
        ab == api_mul(a, b)
        ac == api_mul(a, carry)
        abc == api_mul(ab, carry)
        carry_next == api_add(api_add(api_add(ab, abc), abc), ac)
    IN <<sum, carry_next>>

\* returns <<sum, carry_next>>
bit_add_with_carry(a, b, carry) ==
    LET sum == api_add(api_add(a, b), carry)
        ab == api_mul(a, b)
        ac == api_mul(a, carry)
        bc == api_mul(b, carry)
        abc == api_mul(ab, carry)
        carry_next == api_add(api_add(api_add(api_add(ab, abc), abc), ac), bc)
    IN <<sum, carry_next>>

RECURSIVE add_vanilla_loop(_, _, _, _, _)
\* `for i in (0..32).rev()`, from index i down to 0
add_vanilla_loop(a, b, i, c, carry) ==
    IF i < 0 THEN c
    ELSE LET r == bit_add_with_carry(a[i + 1], b[i + 1], carry)
             c_next == [c EXCEPT ![i + 1] = r[1]]
         IN Do(<<r, c_next, add_vanilla_loop(a, b, i - 1, c_next, r[2])>>)

add_vanilla(a, b) ==
    add_vanilla_loop(a, b, 31, Word([j \in 1..32 |-> api_constant(0)]), api_constant(0))

(***************************************************************************)
(* Carry-save adder.                                                        *)
(***************************************************************************)
\* faulty variant: the carry word is not shifted (out_carry[i] = carry[i + 1])
add_csa3_unshifted_carry(a0, b0, c0) ==
    LET a == reverse(a0)
        b == reverse(b0)
        c == reverse(c0)
        sum == Word([j \in 1..32 |-> api_add(api_add(a[j], b[j]), c[j])])
        out_carry == Word([j \in 1..32 |->
                        api_add(api_add(api_mul(a[j], b[j]), api_mul(b[j], c[j])),
                                api_mul(a[j], c[j]))])
    IN <<reverse(sum), reverse(out_carry)>>

\* faulty variant: the carry leaves out the term a[i] * c[i]
add_csa3_carry_without_ac(a0, b0, c0) ==
    LET a == reverse(a0)
        b == reverse(b0)
        c == reverse(c0)
        sum == Word([j \in 1..32 |-> api_add(api_add(a[j], b[j]), c[j])])
        carry == <<api_constant(0)>> \o
                 Word([j \in 1..32 |-> api_add(api_mul(a[j], b[j]), api_mul(b[j], c[j]))])
        out_carry == Word([j \in 1..32 |-> carry[j]])
    IN <<reverse(sum), reverse(out_carry)>>

\* returns <<sum, out_carry>>
add_csa3(a0, b0, c0) ==
    LET a == reverse(a0)
        b == reverse(b0)
        c == reverse(c0)
        sum == Word([j \in 1..32 |-> api_add(api_add(a[j], b[j]), c[j])])
        ab == Word([j \in 1..32 |-> api_mul(a[j], b[j])])
        bc == Word([j \in 1..32 |-> api_mul(b[j], c[j])])
        ac == Word([j \in 1..32 |-> api_mul(a[j], c[j])])
        tmp == Word([j \in 1..32 |-> api_add(ab[j], bc[j])])
        \* carry has 33 entries: carry[0] = 0, carry[i + 1] = tmp[i] + ac[i]
        carry == <<api_constant(0)>> \o Word([j \in 1..32 |-> api_add(tmp[j], ac[j])])
        out_carry == Word([j \in 1..32 |-> carry[j]])
    IN <<reverse(sum), reverse(out_carry)>>

(***************************************************************************)
(* add() with another of its adders selected: the body of add() names four *)
(* adders, three of them commented out; add_vanilla is the fifth.          *)
(***************************************************************************)
Adders ==
    {"add_brentkung", "add_hancarlson", "add_koggestone_32_bits",
     "add_koggestone_32_bits_prallel", "add_vanilla"}

add_selected(sel, a, b) ==
    CASE sel = "add_brentkung" -> add_brentkung(a, b)
      [] sel = "add_hancarlson" -> add_hancarlson(a, b)
      [] sel = "add_koggestone_32_bits" -> add_koggestone_32_bits(a, b)
      [] sel = "add_koggestone_32_bits_prallel" -> add_koggestone_32_bits_prallel(a, b)
      [] sel = "add_vanilla" -> add_vanilla(a, b)

\* the composition point after a carry-save stage, `add(api, &sum, &carry)`
add_selected_after_csa3(sel, csa) == add_selected(sel, csa[1], csa[2])

(***************************************************************************)
(* Reindexing primitives and the SHA-256 gadgets.                          *)
(***************************************************************************)
\* the outcome of a call that panics (a slice index or subtraction out of range)
Panic == "panic"

\* faulty variant: the two slices are joined in their original order
rotate_right_unswapped(bits, k) ==
    LET n == Len(bits)
        s == n - k
    IN IF k > n THEN Panic
       ELSE SubSeq(bits, 1, s) \o SubSeq(bits, s + 1, n)

\* faulty variant: the cut is made at k, which rotates to the left
rotate_right_cut_at_k(bits, k) ==
    LET n == Len(bits)
    IN IF k > n THEN Panic
       ELSE SubSeq(bits, k + 1, n) \o SubSeq(bits, 1, k)

rotate_right(bits, k) ==
    LET n == Len(bits)
        s == n - k
    IN IF k > n THEN Panic
       ELSE SubSeq(bits, s + 1, n) \o SubSeq(bits, 1, s)

\* faulty variant: the k low bits re-enter at the top, as in a rotation
shift_right_refilled(bits, k) ==
    LET n == Len(bits)
        s == n - k
    IN IF k > n THEN Panic
       ELSE SubSeq(bits, s + 1, n) \o SubSeq(bits, 1, s)

shift_right(bits, k) ==
    LET n == Len(bits)
        s == n - k
    IN IF k > n THEN Panic
       ELSE [j \in 1..k |-> api_constant(0)] \o SubSeq(bits, 1, s)

\* faulty variant: the complement is left out
ch_without_not(x, y, z) ==
    LET xy == and(x, y)
        not_xz == and(x, z)
    IN xor(xy, not_xz)

ch(x, y, z) ==
    LET xy == and(x, y)
        not_x == not(x)
        not_xz == and(not_x, z)
    IN xor(xy, not_xz)

maj(x, y, z) ==
    LET xy == and(x, y)
        xz == and(x, z)
        yz == and(y, z)
        tmp == xor(xy, xz)
    IN xor(tmp, yz)

lower_case_sigma0(word) ==
    LET rot7 == rotate_right(word, 7)
        rot18 == rotate_right(word, 18)
        shft3 == shift_right(word, 3)
        tmp == xor(rot7, rot18)
    IN xor(tmp, shft3)

lower_case_sigma1(word) ==
    LET rot17 == rotate_right(word, 17)
        rot19 == rotate_right(word, 19)
        shft10 == shift_right(word, 10)
        tmp == xor(rot17, rot19)
    IN xor(tmp, shft10)

capital_sigma0(x) ==
    LET rot2 == rotate_right(x, 2)
        rot13 == rotate_right(x, 13)
        rot22 == rotate_right(x, 22)
        tmp == xor(rot2, rot13)
    IN xor(tmp, rot22)

capital_sigma1(x) ==
    LET rot6 == rotate_right(x, 6)
        rot11 == rotate_right(x, 11)
        rot25 == rotate_right(x, 25)
        tmp == xor(rot6, rot11)
    IN xor(tmp, rot25)

(***************************************************************************)
(* sum_all: pairwise binary-tree folding.                                   *)
(***************************************************************************)
RECURSIVE sum_all_pairs(_, _, _)
\* `for i in 0..half_size_floor { vvs[i] = add(vvs[i], vvs[i + half_size_floor]) }`
sum_all_pairs(vvs, half_size_floor, i) ==
    IF i >= half_size_floor THEN vvs
    ELSE LET next == [vvs EXCEPT ![i + 1] = add(vvs[i + 1], vvs[i + half_size_floor + 1])]
         IN Do(<<next, sum_all_pairs(next, half_size_floor, i + 1)>>)

RECURSIVE sum_all_while_without_carry_up(_, _)
\* faulty variant: with an odd number of values the last one is not carried up
sum_all_while_without_carry_up(vvs, n_values_to_sum) ==
    IF n_values_to_sum > 1
    THEN LET half_size_floor == n_values_to_sum \div 2
             paired == sum_all_pairs(vvs, half_size_floor, 0)
         IN sum_all_while_without_carry_up(paired, (n_values_to_sum + 1) \div 2)
    ELSE vvs

RECURSIVE sum_all_while(_, _)
\* `while n_values_to_sum > 1`
sum_all_while(vvs, n_values_to_sum) ==
    IF n_values_to_sum > 1
    THEN LET half_size_floor == n_values_to_sum \div 2
             paired == sum_all_pairs(vvs, half_size_floor, 0)
             carried == IF n_values_to_sum % 2 # 0
                        THEN [paired EXCEPT ![half_size_floor + 1] = paired[n_values_to_sum]]
                        ELSE paired
         IN Do(<<paired, carried, sum_all_while(carried, (n_values_to_sum + 1) \div 2)>>)
    ELSE vvs

\* faulty variant: the count is halved rounding down
sum_all_round_halving_down(vvs, n_values_to_sum) ==
    LET half_size_floor == n_values_to_sum \div 2
        paired == sum_all_pairs(vvs, half_size_floor, 0)
        carried == IF n_values_to_sum % 2 # 0
                   THEN [paired EXCEPT ![half_size_floor + 1] = paired[n_values_to_sum]]
                   ELSE paired
    IN <<carried, n_values_to_sum \div 2>>

\* one iteration of `while n_values_to_sum > 1`: <<vvs, n_values_to_sum>> after it
sum_all_round(vvs, n_values_to_sum) ==
    LET half_size_floor == n_values_to_sum \div 2
        paired == sum_all_pairs(vvs, half_size_floor, 0)
        carried == IF n_values_to_sum % 2 # 0
                   THEN [paired EXCEPT ![half_size_floor + 1] = paired[n_values_to_sum]]
                   ELSE paired
    IN <<carried, (n_values_to_sum + 1) \div 2>>

\* vvs[0] of an empty list is an index out of bounds
sum_all(vs) ==
    IF Len(vs) = 0 THEN Panic ELSE sum_all_while(vs, Len(vs))[1]

(***************************************************************************)
(* sha256_compress.                                                         *)
(***************************************************************************)
\* w[i] = add(s0, s1), appended to w = W[0..i-1]
message_schedule_sum(w, s0, s1) == Do(<<s0, s1, Append(w, add(s0, s1))>>)

\* faulty variant: sigma0 is taken of W[i-14]
message_schedule_step_sigma0_of_w14(w) ==
    LET i == Len(w)
        lower_sigma1 == lower_case_sigma1(w[i - 2 + 1])
        lower_sigma0 == lower_case_sigma0(w[i - 14 + 1])
    IN message_schedule_sum(w, add(lower_sigma1, w[i - 7 + 1]),
                               add(lower_sigma0, w[i - 16 + 1]))

\* W[i] for one i in 16..64, appended to w = W[0..i-1]
message_schedule_step(w) ==
    LET i == Len(w)
        lower_sigma1 == lower_case_sigma1(w[i - 2 + 1])
        lower_sigma0 == lower_case_sigma0(w[i - 15 + 1])
    IN message_schedule_sum(w, add(lower_sigma1, w[i - 7 + 1]),
                               add(lower_sigma0, w[i - 16 + 1]))

RECURSIVE message_schedule(_, _)
\* `for i in 16..64`, run from i = Len(w) up to n: the range is split in two
\* halves run one after the other, which keeps the nesting of the evaluation
\* logarithmic in the number of iterations
message_schedule(w, n) ==
    IF Len(w) >= n THEN w
    ELSE IF n - Len(w) = 1 THEN message_schedule_step(w)
    ELSE LET first == message_schedule(w, Len(w) + (n - Len(w)) \div 2)
         IN Do(<<first, message_schedule(first, n)>>)

\* One iteration of the compression loop on v = <<a, b, c, d, e, f, g, h>>.
\* The iteration is a chain of stages, each handing the values it computed
\* to the next; a pair csaN is the (sum, carry) returned by the N-th add_csa3
\* of the iteration (csa5 = (sum5a, carry5), csa6 = (sum5b, carry6)).  Do
\* evaluates the values a stage receives before the stage uses them.

\* faulty variant: d takes the old b, not the old c
round_rotate_d_from_b(v, t_1, t_2) == <<t_2, v[1], v[2], v[2], t_1, v[5], v[6], v[7]>>

\* h = g; g = f; f = e; e = t_1; d = c; c = b; b = a; a = t_2
round_rotate(v, t_1, t_2) == <<t_2, v[1], v[2], v[3], t_1, v[5], v[6], v[7]>>

\* t_2 = add(sum4, carry4); t_1 = add(sum5b, carry6)
round_outputs(v, csa4, csa6) ==
    Do(<<csa4, csa6, round_rotate(v, add(csa6[1], csa6[2]), add(csa4[1], csa4[2]))>>)

\* (sum4, carry4) = add_csa3(sum3, carry3, carry2);
\* (sum5b, carry6) = add_csa3(carry1, sum5a, carry5)
round_stage3(v, carry1, carry2, csa3, csa5) ==
    Do(<<csa3, csa5,
         round_outputs(v, add_csa3(csa3[1], csa3[2], carry2),
                          add_csa3(carry1, csa5[1], csa5[2]))>>)

\* faulty variant: the second chain takes c in the place of d
round_stage2_sum5a_with_c(v, ch_e_f_g, csa1, csa2) ==
    Do(<<csa1, csa2,
         round_stage3(v, csa1[2], csa2[2],
                      add_csa3(csa1[1], csa1[2], csa2[1]),
                      add_csa3(v[3], ch_e_f_g, csa1[1]))>>)

\* (sum3, carry3) = add_csa3(sum1, carry1, sum2);
\* (sum5a, carry5) = add_csa3(d, ch_e_f_g, sum1)
round_stage2(v, ch_e_f_g, csa1, csa2) ==
    Do(<<csa1, csa2,
         round_stage3(v, csa1[2], csa2[2],
                      add_csa3(csa1[1], csa1[2], csa2[1]),
                      add_csa3(v[4], ch_e_f_g, csa1[1]))>>)

\* (sum1, carry1) = add_csa3(h, w_plus_k, capital_sigma_1_e);
\* (sum2, carry2) = add_csa3(ch_e_f_g, capital_sigma_0_a, maj_a_b_c)
round_stage1(v, w_plus_k, ch_e_f_g) ==
    Do(<<w_plus_k, ch_e_f_g,
         round_stage2(v, ch_e_f_g,
                      add_csa3(v[8], w_plus_k, capital_sigma1(v[5])),
                      add_csa3(ch_e_f_g, capital_sigma0(v[1]), maj(v[1], v[2], v[3])))>>)

compress_round(v, w, i) ==
    round_stage1(v, add_const(w[i + 1], SHA256_K[i + 1]), ch(v[5], v[6], v[7]))

RECURSIVE compress_rounds(_, _, _, _)
\* `for i in 0..64`, run for i in lo..hi: the range is split in two halves run
\* one after the other; the eight working variables of the first half are
\* computed before the second half starts
compress_rounds(v, w, lo, hi) ==
    IF hi <= lo THEN v
    ELSE IF hi - lo = 1 THEN compress_round(v, w, lo)
    ELSE LET mid == (lo + hi) \div 2
             first == compress_rounds(v, w, lo, mid)
         IN Do(<<first, compress_rounds(first, w, mid, hi)>>)

\* faulty variant: the state takes the working variables, nothing is added
add_working_variables_without_state(state, v) ==
    Do(<<v, SubSeq([j \in 1..8 |-> v[j]], 1, 8)>>)

\* state[j] = add(state[j], v[j]) for the eight working variables v
add_working_variables(state, v) ==
    Do(<<v, SubSeq([j \in 1..8 |-> add(state[j], v[j])], 1, 8)>>)

\* the compression loop on the schedule w, then the final additions
compress_schedule(state, w) ==
    Do(<<w, add_working_variables(state, compress_rounds(state, w, 0, 64))>>)

\* `w[i] = input[(i * 32)..((i + 1) * 32)]` for i in 0..16
input_words(input) ==
    SubSeq([i \in 1..16 |-> SubSeq(input, (i - 1) * 32 + 1, i * 32)], 1, 16)

\* state: 8 words; input: 512 bits; returns the new state
sha256_compress(state, input) ==
    LET w16 == SubSeq([i \in 1..16 |-> SubSeq(input, (i - 1) * 32 + 1, i * 32)], 1, 16)
    IN compress_schedule(state, message_schedule(w16, 64))

(***************************************************************************)
(* The engine: SHA256GF2::new, update, finalize.                           *)
(***************************************************************************)
\* 448 - ((data_len + 1) % 512) in usize: the subtraction overflows when the
\* remainder exceeds 448.  A debug build panics at the subtraction; a release
\* build wraps to a length near 2^64 and panics reserving the zero bits.
\* Either way finalize() panics after the push of the 1 bit.
zero_padding_overflows(len) == (len + 1) % 512 > 448

zero_padding_len(len) == 448 - ((len + 1) % 512)

\* the buffer after the padding step of finalize(), when it does not panic
padding(buf) ==
    LET len == Len(buf)
        pushed == Append(buf, api_constant(1))
        zeros == [j \in 1..zero_padding_len(len) |-> api_constant(0)]
    IN (pushed \o zeros) \o u64_to_bit(len)

RECURSIVE compress_chunks(_, _, _)
\* `self.data.chunks_exact(512).for_each(...)`, from chunk k on
compress_chunks(state, buf, k) ==
    IF (k + 1) * 512 > Len(buf) THEN state
    ELSE LET chunk == SubSeq(buf, k * 512 + 1, (k + 1) * 512)
         IN Do(<<state, compress_chunks(sha256_compress(state, chunk), buf, k + 1)>>)

\* `state.iter().flatten().cloned().collect()`
flatten(state) ==
    LET n == Len(state)
    IN SubSeq([j \in 1..(32 * n) |-> state[((j - 1) \div 32) + 1][((j - 1) % 32) + 1]],
              1, 32 * n)

init_state == SubSeq([j \in 1..8 |-> u32_to_bit(SHA256_INIT_STATE[j])], 1, 8)

(***************************************************************************)
(* Inputs of update(): the 24 bits of "abc", and slices of the bit stream   *)
(* of the round constants, taken at the buffer's current length.            *)
(***************************************************************************)
UpdateLens == {1, 2, 447}

StreamBit(j) == U32BitAt(SHA256_K[((j \div 32) % 64) + 1], 31 - (j % 32))

StreamSlice(pos, n) == SubSeq([j \in 1..n |-> StreamBit(pos + j - 1)], 1, n)

\* 'a' = 0x61, 'b' = 0x62, 'c' = 0x63, each byte most-significant bit first
AbcBits == <<0,1,1,0,0,0,0,1, 0,1,1,0,0,0,1,0, 0,1,1,0,0,0,1,1>>

UpdateInputs(pos) == {AbcBits} \cup {StreamSlice(pos, n) : n \in UpdateLens}

EngineInit ==
    /\ data = <<>>
    /\ data_len = 0
    /\ digest = <<>>
    /\ status = "Accumulating"
    /\ n_updates = 0
    /\ n_finals = 0
    /\ fed = <<>>

GadgetIdle ==
    /\ opnd = <<>>
    /\ pc = "off"
    /\ args = <<>>
    /\ ret = <<>>

\* faulty variant: the buffer is replaced by the new bits
extend_from_empty(buf, bits) == bits

\* `self.data.extend(data)`
extend(buf, bits) == buf \o bits

\* update(&mut self, data): nothing in the code refuses a call after finalize()
Update ==
    \E bits \in UpdateInputs(Len(data)) :
        /\ status # "Panicked"
        /\ n_updates + n_finals < MaxCalls
        /\ data' = extend(data, bits)
        /\ fed' = fed \o bits
        /\ status' = "Accumulating"
        /\ n_updates' = n_updates + 1
        /\ UNCHANGED <<data_len, digest, n_finals, gadget_vars>>

\* finalize(&mut self, api): padding, initial state, compression of every
\* 512-bit chunk, digest
Finalize ==
    /\ status # "Panicked"
    /\ n_updates + n_finals < MaxCalls
    /\ n_finals' = n_finals + 1
    /\ data_len' = Len(data)
    /\ IF zero_padding_overflows(Len(data))
       THEN /\ data' = Append(data, api_constant(1))
            /\ status' = "Panicked"
            /\ UNCHANGED digest
       ELSE LET padded == padding(data)
            IN /\ data' = padded
               /\ digest' = flatten(compress_chunks(init_state, padded, 0))
               /\ status' = "Finalized"
    /\ UNCHANGED <<n_updates, fed, gadget_vars>>

Init == EngineInit /\ GadgetIdle

Next ==
    \/ Update
    \/ Finalize

Spec == Init /\ [][Next]_vars

(***************************************************************************)
(* finalize() taken one compression at a time: pc = "chunks" while the     *)
(* `chunks_exact(512).for_each` loop runs, args = <<state, k>> with state   *)
(* the 8-word hash state and k the number of chunks already consumed.      *)
(***************************************************************************)
\* whether chunks_exact(512) yields a chunk of index k
chunks_exact_has(buf, k) == (k + 1) * 512 <= Len(buf)

\* faulty variant: every chunk is compressed from the initial constants
compress_chunk_from_init_state(state, buf, k) ==
    <<sha256_compress(init_state, SubSeq(buf, k * 512 + 1, (k + 1) * 512)), k + 1>>

\* one call of the closure of for_each: `self.sha256_compress(api, &mut state, chunk)`
compress_chunk(state, buf, k) ==
    <<sha256_compress(state, SubSeq(buf, k * 512 + 1, (k + 1) * 512)), k + 1>>

\* update() can only run between two calls of finalize(&mut self)
UpdateBetweenCalls ==
    /\ pc = "off"
    /\ Update

\* finalize() up to the creation of `state` (gf2.rs 49-72)
FinalizePadding ==
    /\ pc = "off"
    /\ status # "Panicked"
    /\ n_updates + n_finals < MaxCalls
    /\ n_finals' = n_finals + 1
    /\ data_len' = Len(data)
    /\ IF zero_padding_overflows(Len(data))
       THEN /\ data' = Append(data, api_constant(1))
            /\ status' = "Panicked"
            /\ UNCHANGED <<pc, args>>
       ELSE /\ data' = padding(data)
            /\ status' = "Compressing"
            /\ pc' = "chunks"
            /\ args' = <<init_state, 0>>
    /\ UNCHANGED <<digest, n_updates, fed, opnd, ret>>

\* one iteration of `self.data.chunks_exact(512).for_each(...)`
FinalizeChunk ==
    /\ pc = "chunks"
    /\ chunks_exact_has(data, args[2])
    /\ args' = compress_chunk(args[1], data, args[2])
    /\ UNCHANGED <<pc, ret, opnd, engine_vars>>

\* the end of the loop and the returned digest (gf2.rs 79-83)
FinalizeDigest ==
    /\ pc = "chunks"
    /\ ~chunks_exact_has(data, args[2])
    /\ digest' = flatten(args[1])
    /\ status' = "Finalized"
    /\ pc' = "off"
    /\ UNCHANGED <<args, ret, opnd, data, data_len, n_updates, n_finals, fed>>

NextChunks ==
    \/ UpdateBetweenCalls
    \/ FinalizePadding
    \/ FinalizeChunk
    \/ FinalizeDigest

SpecChunks == Init /\ [][NextChunks]_vars

(***************************************************************************)
(* The gadget harness: the circuits the repository's tests compile around  *)
(* one gadget (AddConstCircuit, CSA3TestCircuit, CSA3ChainTestCircuit,     *)
(* BrentKungSumChain4Circuit, ...), run on one assignment of their inputs. *)
(***************************************************************************)
\* the u32 values the harness assigns to input words: 0, 1, 0xffffffff,
\* 0x80000000, 0x0000ffff and the first round constants
OperandValues ==
    {<<0, 0>>, <<0, 1>>, <<\Hffff, \Hffff>>, <<\H8000, 0>>, <<0, \Hffff>>}
        \cup {SHA256_K[i] : i \in 1..NumOperands}

\* `assignment.a[i] = ((a >> (31 - i)) & 1).into()`
Operands == {u32_to_bit(v) : v \in OperandValues}

\* the further input words d, e, f of the chain circuits
ChainOperands == {u32_to_bit(SHA256_INIT_STATE[i]) : i \in 1..NumChainOperands}

\* the compile-time constants handed to add_const: the test's b_const
\* 0x12345678, the all-ones word, and the first round constants
ConstValues ==
    {<<\H1234, \H5678>>, <<\Hffff, \Hffff>>} \cup {SHA256_K[i] : i \in 1..NumOperands}

\* BrentKungSumChain4Circuit::define
brentkung_sum_chain4(a, b, c, d) ==
    LET sum1 == add_brentkung(a, b)
        sum2 == add_brentkung(c, d)
        sum3 == add_brentkung(sum1, sum2)
    IN sum3

\* CSA3ChainTestCircuit::define; returns <<sum4, carry4>>
csa3_chain(a, b, c, d, e, f) ==
    LET csa1 == add_csa3(a, b, c)
        csa2 == add_csa3(d, e, f)
        csa3 == add_csa3(csa1[1], csa1[2], csa2[1])
        csa4 == add_csa3(csa3[1], csa3[2], csa2[2])
    IN csa4

\* `let (sum, carry) = add_csa3(api, a, b, c); add(api, &sum, &carry)`
csa3_then_add(a, b, c) ==
    LET csa == add_csa3(a, b, c)
    IN add(csa[1], csa[2])

\* WallaceBKSumChainCircuit::define; returns <<sum5, sum6>>, the words the
\* circuit asserts equal to out1 and out2
wallace_bk_sum_chain_outputs(csa4, csa6) ==
    <<add(csa6[1], csa6[2]), add(csa4[1], csa4[2])>>

wallace_bk_sum_chain_stage3(carry1, carry2, csa3, csa5) ==
    wallace_bk_sum_chain_outputs(add_csa3(csa3[1], csa3[2], carry2),
                                 add_csa3(carry1, csa5[1], csa5[2]))

wallace_bk_sum_chain_stage2(d, g, csa1, csa2) ==
    wallace_bk_sum_chain_stage3(csa1[2], csa2[2],
                                add_csa3(csa1[1], csa1[2], csa2[1]),
                                add_csa3(g, d, csa1[1]))

wallace_bk_sum_chain(a, b, c, d, e, f, g) ==
    wallace_bk_sum_chain_stage2(d, g, add_csa3(a, b, c), add_csa3(d, e, f))

\* rotate_right of detailed_op/check_sigma.rs: `new_bits[i] = bits[(i + s) % n]`
check_sigma_rotate_right(bits, k) ==
    LET n == Len(bits)
        s == n - k
    IN Word([j \in 1..n |-> bits[((j - 1 + s) % n) + 1]])

\* capital_sigma0 of detailed_op/check_sigma.rs
check_sigma_capital_sigma0(x) ==
    LET rot2 == check_sigma_rotate_right(x, 2)
        rot13 == check_sigma_rotate_right(x, 13)
        rot22 == check_sigma_rotate_right(x, 22)
        tmp == xor(rot2, rot13)
    IN xor(tmp, rot22)

\* the rotation and shift distances k in [0, 32)
Distances == 0..31

\* offsets outside [0, 31]: the word length itself and larger ones
BeyondDistances == {32, 33, 64}

\* the two build profiles: overflow checks on (debug) or off (release)
Builds == {"debug", "release"}

\* rotate_right called with any k: <<what it returns, constants allocated
\* before it returns or panics>>.  For k > n the subtraction n - k overflows:
\* a debug build panics there, a release build wraps and panics at the slice
\* bits[s..]; the function allocates nothing.
rotate_right_call(bits, k, build) == <<rotate_right(bits, k), 0>>

\* shift_right called with any k.  For k > n a debug build panics at n - k; a
\* release build wraps, evaluates `vec![api.constant(0); k]`, which allocates
\* the constant, and panics at the slice bits[0..s].
shift_right_call(bits, k, build) ==
    IF k > Len(bits)
    THEN <<Panic, IF build = "release" THEN 1 ELSE 0>>
    ELSE <<shift_right(bits, k), 1>>

\* the list of n words the harness hands to sum_all: the three input words,
\* a further one and the second again, repeated in this order
Summands(d, n) ==
    LET pool == <<opnd[1], opnd[2], opnd[3], d, opnd[2]>>
    IN SubSeq([j \in 1..n |-> pool[((j - 1) % 5) + 1]], 1, n)

\* the rounds of the compression loop the harness runs on its own: the first
\* two and the last
RoundIndices == {0, 1, 63}

GadgetInit ==
    /\ opnd \in Operands \X Operands \X Operands
    /\ pc = "ready"
    /\ args = <<>>
    /\ ret = <<>>

\* Each action runs one gadget on the harness inputs: pc records which one,
\* args the further inputs it drew, ret what the gadget returned.

Add ==
    /\ pc = "ready"
    /\ pc' = "add"
    /\ args' = <<>>
    /\ ret' = add(opnd[1], opnd[2])
    /\ UNCHANGED <<opnd, engine_vars>>

AddHanCarlson ==
    /\ pc = "ready"
    /\ pc' = "add_hancarlson_32_bits"
    /\ args' = <<>>
    /\ ret' = add_hancarlson_32_bits(opnd[1], opnd[2])
    /\ UNCHANGED <<opnd, engine_vars>>

AddBrentKung ==
    /\ pc = "ready"
    /\ pc' = "add_brentkung"
    /\ args' = <<>>
    /\ ret' = add_brentkung(opnd[1], opnd[2])
    /\ UNCHANGED <<opnd, engine_vars>>

BrentKungSumChain4 ==
    \E d \in ChainOperands :
        /\ pc = "ready"
        /\ pc' = "brentkung_sum_chain4"
        /\ args' = <<d>>
        /\ ret' = brentkung_sum_chain4(opnd[1], opnd[2], opnd[3], d)
        /\ UNCHANGED <<opnd, engine_vars>>

AddKoggeStone ==
    /\ pc = "ready"
    /\ pc' = "add_koggestone_32_bits"
    /\ args' = <<>>
    /\ ret' = add_koggestone_32_bits(opnd[1], opnd[2])
    /\ UNCHANGED <<opnd, engine_vars>>

AddVanilla ==
    /\ pc = "ready"
    /\ pc' = "add_vanilla"
    /\ args' = <<>>
    /\ ret' = add_vanilla(opnd[1], opnd[2])
    /\ UNCHANGED <<opnd, engine_vars>>

\* one full adder, on the bits the ripple chain can hand it
BitAddWithCarry ==
    \E a \in Bit, b \in Bit, carry \in Bit :
        /\ pc = "ready"
        /\ pc' = "bit_add_with_carry"
        /\ args' = <<a, b, carry>>
        /\ ret' = bit_add_with_carry(a, b, carry)
        /\ UNCHANGED <<opnd, engine_vars>>

AddConst ==
    \E b \in ConstValues :
        /\ pc = "ready"
        /\ pc' = "add_const"
        /\ args' = <<b>>
        /\ ret' = add_const(opnd[1], b)
        /\ UNCHANGED <<opnd, engine_vars>>

\* one iteration of add_const's loop, at index i with incoming carry ci; every
\* iteration finds c[i] = a[i], the loop writes each index once
AddConstStep ==
    \E b \in ConstValues, i \in 0..31, ci \in Bit :
        /\ pc = "ready"
        /\ pc' = "add_const_step"
        /\ args' = <<b, i, ci>>
        /\ ret' = add_const_step(opnd[1], b, <<opnd[1], ci>>, i)
        /\ UNCHANGED <<opnd, engine_vars>>

AddCsa3 ==
    /\ pc = "ready"
    /\ pc' = "add_csa3"
    /\ args' = <<>>
    /\ ret' = add_csa3(opnd[1], opnd[2], opnd[3])
    /\ UNCHANGED <<opnd, engine_vars>>

Csa3Chain ==
    \E d \in ChainOperands, e \in ChainOperands, f \in ChainOperands :
        /\ pc = "ready"
        /\ pc' = "csa3_chain"
        /\ args' = <<d, e, f>>
        /\ ret' = csa3_chain(opnd[1], opnd[2], opnd[3], d, e, f)
        /\ UNCHANGED <<opnd, engine_vars>>

Csa3ThenAdd ==
    /\ pc = "ready"
    /\ pc' = "csa3_then_add"
    /\ args' = <<>>
    /\ ret' = csa3_then_add(opnd[1], opnd[2], opnd[3])
    /\ UNCHANGED <<opnd, engine_vars>>

\* the circuit's inputs a, b, c are the harness words, d and g are drawn
\* freely, e and f repeat the words c and a
WallaceBKSumChain ==
    \E d \in ChainOperands, g \in ChainOperands :
        /\ pc = "ready"
        /\ pc' = "wallace_bk_sum_chain"
        /\ args' = <<d, opnd[3], opnd[1], g>>
        /\ ret' = wallace_bk_sum_chain(opnd[1], opnd[2], opnd[3], d, opnd[3], opnd[1], g)
        /\ UNCHANGED <<opnd, engine_vars>>

\* one iteration of the compression loop of sha256_compress, round i, on the
\* working variables v = <<a, ..., h>> and the schedule word w[i] = wi
CompressRound ==
    \E x \in ChainOperands, i \in RoundIndices :
        LET v == <<opnd[1], x, opnd[2], x, opnd[2], opnd[3], x, opnd[3]>>
            wi == opnd[1]
        IN /\ pc = "ready"
           /\ pc' = "compress_round"
           /\ args' = <<v, wi, i>>
           /\ ret' = compress_round(v, [j \in 1..64 |-> wi], i)
           /\ UNCHANGED <<opnd, engine_vars>>

RotateRight ==
    \E k \in Distances :
        /\ pc = "ready"
        /\ pc' = "rotate_right"
        /\ args' = <<k>>
        /\ ret' = rotate_right(opnd[1], k)
        /\ UNCHANGED <<opnd, engine_vars>>

CheckSigmaRotateRight ==
    \E k \in Distances :
        /\ pc = "ready"
        /\ pc' = "check_sigma_rotate_right"
        /\ args' = <<k>>
        /\ ret' = check_sigma_rotate_right(opnd[1], k)
        /\ UNCHANGED <<opnd, engine_vars>>

\* Sigma0TestCircuit::define
CheckSigmaCapitalSigma0 ==
    /\ pc = "ready"
    /\ pc' = "check_sigma_capital_sigma0"
    /\ args' = <<>>
    /\ ret' = check_sigma_capital_sigma0(opnd[1])
    /\ UNCHANGED <<opnd, engine_vars>>

ShiftRight ==
    \E k \in Distances :
        /\ pc = "ready"
        /\ pc' = "shift_right"
        /\ args' = <<k>>
        /\ ret' = shift_right(opnd[1], k)
        /\ UNCHANGED <<opnd, engine_vars>>

Ch ==
    /\ pc = "ready"
    /\ pc' = "ch"
    /\ args' = <<>>
    /\ ret' = ch(opnd[1], opnd[2], opnd[3])
    /\ UNCHANGED <<opnd, engine_vars>>

Maj ==
    /\ pc = "ready"
    /\ pc' = "maj"
    /\ args' = <<>>
    /\ ret' = maj(opnd[1], opnd[2], opnd[3])
    /\ UNCHANGED <<opnd, engine_vars>>

LowerCaseSigma0 ==
    /\ pc = "ready"
    /\ pc' = "lower_case_sigma0"
    /\ args' = <<>>
    /\ ret' = lower_case_sigma0(opnd[1])
    /\ UNCHANGED <<opnd, engine_vars>>

LowerCaseSigma1 ==
    /\ pc = "ready"
    /\ pc' = "lower_case_sigma1"
    /\ args' = <<>>
    /\ ret' = lower_case_sigma1(opnd[1])
    /\ UNCHANGED <<opnd, engine_vars>>

CapitalSigma0 ==
    /\ pc = "ready"
    /\ pc' = "capital_sigma0"
    /\ args' = <<>>
    /\ ret' = capital_sigma0(opnd[1])
    /\ UNCHANGED <<opnd, engine_vars>>

CapitalSigma1 ==
    /\ pc = "ready"
    /\ pc' = "capital_sigma1"
    /\ args' = <<>>
    /\ ret' = capital_sigma1(opnd[1])
    /\ UNCHANGED <<opnd, engine_vars>>

SumAll ==
    \E d \in ChainOperands, n \in 1..MaxSummands :
        /\ pc = "ready"
        /\ pc' = "sum_all"
        /\ args' = <<Summands(d, n)>>
        /\ ret' = sum_all(Summands(d, n))
        /\ UNCHANGED <<opnd, engine_vars>>

AddHanCarlsonBlocks ==
    /\ pc = "ready"
    /\ pc' = "add_hancarlson"
    /\ args' = <<>>
    /\ ret' = add_hancarlson(opnd[1], opnd[2])
    /\ UNCHANGED <<opnd, engine_vars>>

\* add() with adder sel in its body, on the two input words
AddSelected ==
    \E sel \in Adders :
        /\ pc = "ready"
        /\ pc' = "add_selected"
        /\ args' = <<sel>>
        /\ ret' = add_selected(sel, opnd[1], opnd[2])
        /\ UNCHANGED <<opnd, engine_vars>>

\* add() with adder sel in its body, on the outputs of a carry-save stage
Csa3ThenAddSelected ==
    \E sel \in Adders :
        /\ pc = "ready"
        /\ pc' = "csa3_then_add_selected"
        /\ args' = <<sel>>
        /\ ret' = add_selected_after_csa3(sel, add_csa3(opnd[1], opnd[2], opnd[3]))
        /\ UNCHANGED <<opnd, engine_vars>>

RotateRightBeyond ==
    \E k \in BeyondDistances, build \in Builds :
        /\ pc = "ready"
        /\ pc' = "rotate_right_beyond"
        /\ args' = <<k, build>>
        /\ ret' = rotate_right_call(opnd[1], k, build)
        /\ UNCHANGED <<opnd, engine_vars>>

ShiftRightBeyond ==
    \E k \in BeyondDistances, build \in Builds :
        /\ pc = "ready"
        /\ pc' = "shift_right_beyond"
        /\ args' = <<k, build>>
        /\ ret' = shift_right_call(opnd[1], k, build)
        /\ UNCHANGED <<opnd, engine_vars>>

\* sum_all run one loop iteration at a time.  args holds <<vvs,
\* n_values_to_sum, iterations run so far, vs.len()>>.
SumAllEnter ==
    \E n \in 1..MaxSummands :
        /\ pc = "ready"
        /\ pc' = "sum_all_while"
        /\ args' = <<Summands(opnd[3], n), n, 0, n>>
        /\ ret' = <<>>
        /\ UNCHANGED <<opnd, engine_vars>>

\* the loop condition holds: one iteration
SumAllRound ==
    /\ pc = "sum_all_while"
    /\ args[2] > 1
    /\ pc' = "sum_all_while"
    /\ args' = sum_all_round(args[1], args[2]) \o <<args[3] + 1, args[4]>>
    /\ UNCHANGED <<ret, opnd, engine_vars>>

\* the loop condition fails: `vvs[0]` is returned
SumAllReturn ==
    /\ pc = "sum_all_while"
    /\ ~(args[2] > 1)
    /\ pc' = "sum_all_returned"
    /\ ret' = args[1][1]
    /\ UNCHANGED <<args, opnd, engine_vars>>

\* add_koggestone_32_bits_prallel taken one prefix_step at a time:
\* args = <<g_prefix, p_prefix, the shifts still to run, p>>
KoggeStoneParallelEnter ==
    /\ pc = "ready"
    /\ pc' = "prefix_steps"
    /\ LET a == reverse(opnd[1])
           b == reverse(opnd[2])
       IN args' = <<and(a, b), xor(a, b), <<1, 2, 4, 8, 16>>, xor(a, b)>>
    /\ ret' = <<>>
    /\ UNCHANGED <<opnd, engine_vars>>

\* one iteration of `for &shift in [1, 2, 4, 8, 16].iter()`
KoggeStoneParallelStep ==
    /\ pc = "prefix_steps"
    /\ args[3] # <<>>
    /\ LET r == prefix_step(args[1], args[2], Head(args[3]))
       IN args' = <<r[1], r[2], Tail(args[3]), args[4]>>
    /\ UNCHANGED <<pc, ret, opnd, engine_vars>>

\* carry = shift_left(g_prefix, 1); sum = xor(p, carry), reversed
KoggeStoneParallelReturn ==
    /\ pc = "prefix_steps"
    /\ args[3] = <<>>
    /\ pc' = "prefix_steps_returned"
    /\ ret' = reverse(xor(args[4], shift_left(args[1], 1)))
    /\ UNCHANGED <<args, opnd, engine_vars>>

InitGadget == EngineInit /\ GadgetInit

NextGadget ==
    \/ Add
    \/ AddHanCarlson
    \/ AddBrentKung
    \/ BrentKungSumChain4
    \/ AddKoggeStone
    \/ AddVanilla
    \/ BitAddWithCarry
    \/ AddConst
    \/ AddConstStep
    \/ AddCsa3
    \/ Csa3Chain
    \/ Csa3ThenAdd
    \/ WallaceBKSumChain
    \/ CompressRound
    \/ RotateRight
    \/ CheckSigmaRotateRight
    \/ CheckSigmaCapitalSigma0
    \/ ShiftRight
    \/ Ch
    \/ Maj
    \/ LowerCaseSigma0
    \/ LowerCaseSigma1
    \/ CapitalSigma0
    \/ CapitalSigma1
    \/ SumAll
    \/ AddHanCarlsonBlocks
    \/ AddSelected
    \/ Csa3ThenAddSelected
    \/ RotateRightBeyond
    \/ ShiftRightBeyond
    \/ SumAllEnter
    \/ SumAllRound
    \/ SumAllReturn
    \/ KoggeStoneParallelEnter
    \/ KoggeStoneParallelStep
    \/ KoggeStoneParallelReturn

SpecGadget == InitGadget /\ [][NextGadget]_vars

(***************************************************************************)
(* The block harness: the 4-bit adder blocks run on every pair of 4-bit    *)
(* inputs and both carry-in values.  It holds no input words.              *)
(***************************************************************************)
\* the 4-bit little-endian slices a[start..end]
Nibbles == {<<b0, b1, b2, b3>> : b0 \in Bit, b1 \in Bit, b2 \in Bit, b3 \in Bit}

BlocksInit ==
    /\ opnd = <<>>
    /\ pc = "ready"
    /\ args = <<>>
    /\ ret = <<>>

HanCarlsonAdder4Bits ==
    \E a \in Nibbles, b \in Nibbles, carry_in \in Bit :
        /\ pc = "ready"
        /\ pc' = "han_carlson_adder_4_bits"
        /\ args' = <<a, b, carry_in>>
        /\ ret' = han_carlson_adder_4_bits(a, b, carry_in)
        /\ UNCHANGED <<opnd, engine_vars>>

BrentKungAdder4Bits ==
    \E a \in Nibbles, b \in Nibbles, carry_in \in Bit :
        /\ pc = "ready"
        /\ pc' = "brent_kung_adder_4_bits"
        /\ args' = <<a, b, carry_in>>
        /\ ret' = brent_kung_adder_4_bits(a, b, carry_in)
        /\ UNCHANGED <<opnd, engine_vars>>

\* a (generate, propagate) pair of one position or of a group of positions
GP == Bit \X Bit

\* the combine of three pairs, grouped from the left and from the right
CarryCombine ==
    \E x \in GP, y \in GP, z \in GP :
        /\ pc = "ready"
        /\ pc' = "carry_combine"
        /\ args' = <<x, y, z>>
        /\ ret' = <<carry_combine(carry_combine(x, y), z),
                    carry_combine(x, carry_combine(y, z))>>
        /\ UNCHANGED <<opnd, engine_vars>>

\* the prefix computations of the three 32-bit prefix adders on the
\* little-endian a, b: ret = <<serial Kogge-Stone, Han-Carlson, parallel
\* Kogge-Stone>>, each a pair <<g_prefix, p_prefix>>
CarryPrefixes ==
    \E a0 \in Operands, b0 \in Operands :
        /\ pc = "ready"
        /\ pc' = "carry_prefixes"
        /\ args' = <<reverse(a0), reverse(b0)>>
        /\ LET a == reverse(a0)
               b == reverse(b0)
               g == Word([j \in 1..32 |-> api_mul(a[j], b[j])])
               p == Word([j \in 1..32 |-> api_add(a[j], b[j])])
           IN ret' = <<koggestone_while(g, p, 1),
                       hancarlson_while(g, p, 1),
                       prefix_steps(and(a, b), xor(a, b), <<1, 2, 4, 8, 16>>)>>
        /\ UNCHANGED <<opnd, engine_vars>>

InitBlocks == EngineInit /\ BlocksInit

NextBlocks ==
    \/ HanCarlsonAdder4Bits
    \/ BrentKungAdder4Bits
    \/ CarryCombine
    \/ CarryPrefixes

SpecBlocks == InitBlocks /\ [][NextBlocks]_vars

(***************************************************************************)
(* sha256_compress taken one loop iteration at a time, on the calls that   *)
(* finalize() makes for the empty message, for "abc", and for the second   *)
(* block of a second finalize() on the instance that hashed the empty      *)
(* message.  args = <<state, input, w, v, i>>: the pre-block state, the    *)
(* block, the schedule filled so far, the working variables, the index of  *)
(* the running loop.                                                       *)
(***************************************************************************)
CompressInputs ==
    LET empty == padding(<<>>)
        again == padding(empty)
    IN {<<init_state, empty>>,
        <<init_state, padding(AbcBits)>>,
        <<sha256_compress(init_state, empty), SubSeq(again, 513, 1024)>>}

\* entry, and `for i in 0..16`
CompressEnter ==
    \E c \in CompressInputs :
        /\ pc = "ready"
        /\ pc' = "schedule"
        /\ args' = <<c[1], c[2], input_words(c[2]), <<>>, 16>>
        /\ UNCHANGED <<ret, opnd, engine_vars>>

\* one iteration of `for i in 16..64`
ScheduleStep ==
    /\ pc = "schedule"
    /\ args[5] < 64
    /\ args' = <<args[1], args[2], message_schedule_step(args[3]), args[4], args[5] + 1>>
    /\ UNCHANGED <<pc, ret, opnd, engine_vars>>

\* `let [mut a, ..., mut h] = state`, taken when the schedule is complete
CompressLoopEnter ==
    /\ pc = "schedule"
    /\ ~(args[5] < 64)
    /\ pc' = "rounds"
    /\ args' = <<args[1], args[2], args[3], args[1], 0>>
    /\ UNCHANGED <<ret, opnd, engine_vars>>

\* one iteration of the compression loop `for i in 0..64`
CompressLoopStep ==
    /\ pc = "rounds"
    /\ args[5] < 64
    /\ args' = <<args[1], args[2], args[3], compress_round(args[4], args[3], args[5]),
                 args[5] + 1>>
    /\ UNCHANGED <<pc, ret, opnd, engine_vars>>

\* the eight final additions into `state`
CompressReturn ==
    /\ pc = "rounds"
    /\ ~(args[5] < 64)
    /\ pc' = "compressed"
    /\ ret' = add_working_variables(args[1], args[4])
    /\ UNCHANGED <<args, opnd, engine_vars>>

NextCompress ==
    \/ CompressEnter
    \/ ScheduleStep
    \/ CompressLoopEnter
    \/ CompressLoopStep
    \/ CompressReturn

SpecCompress == InitBlocks /\ [][NextCompress]_vars

(***************************************************************************)
(* Reference arithmetic on u32 values and reference bit operations, used   *)
(* to state the properties.  None of it goes through the circuit builder.  *)
(***************************************************************************)
RECURSIVE BitsValue(_, _)
\* the number whose binary digits, most-significant first, are bits[1..n]
BitsValue(bits, n) == IF n = 0 THEN 0 ELSE 2 * BitsValue(bits, n - 1) + bits[n]

IsWord(w) == DOMAIN w = 1..32 /\ \A j \in 1..32 : w[j] \in Bit

\* the u32 a big-endian word stands for, as <<high 16 bits, low 16 bits>>
WordValue(w) == <<BitsValue(SubSeq(w, 1, 16), 16), BitsValue(SubSeq(w, 17, 32), 16)>>

\* (x + y) mod 2^32
U32Add(x, y) ==
    LET lo == x[2] + y[2]
        hi == x[1] + y[1] + (lo \div 65536)
    IN <<hi % 65536, lo % 65536>>

BitXor(x, y) == IF x = y THEN 0 ELSE 1
BitAnd(x, y) == IF x = 1 /\ y = 1 THEN 1 ELSE 0
BitNot(x) == IF x = 1 THEN 0 ELSE 1
BitMajority(x, y, z) == IF x + y + z >= 2 THEN 1 ELSE 0

\* a ^ b ^ c on big-endian words
WordXor3(a, b, c) == Word([j \in 1..32 |-> BitXor(BitXor(a[j], b[j]), c[j])])

\* ((a & b) ^ (a & c) ^ (b & c)) << 1 on big-endian words: position j takes the
\* bit of position j + 1, the least-significant position 32 takes 0
WordCarry3(a, b, c) ==
    Word([j \in 1..32 |->
        IF j = 32 THEN 0
        ELSE BitXor(BitXor(BitAnd(a[j + 1], b[j + 1]), BitAnd(a[j + 1], c[j + 1])),
                    BitAnd(b[j + 1], c[j + 1]))])

Zeros(n) == [j \in 1..n |-> 0]

\* the 64-bit big-endian encoding of a length below 2^31
BigEndian64(len) ==
    [j \in 1..64 |-> IF j <= 33 THEN 0 ELSE (len \div (2 ^ (64 - j))) % 2]

\* the smallest z >= 0 with len + 1 + z congruent to 448 mod 512
SmallestZeroPadding(len) == (448 + 512 - ((len + 1) % 512)) % 512

AllOnes == u32_to_bit(<<\Hffff, \Hffff>>)
One == u32_to_bit(<<0, 1>>)

\* x.rotate_right(k) and x >> k of a u32, on its big-endian word: the bit of
\* weight 2^(31 - i) stands at index i (position i + 1 of the sequence)
Rotr(x, k) == Word([j \in 1..32 |-> x[((j - 1 + 32 - k) % 32) + 1]])
Shr(x, k) == Word([j \in 1..32 |-> IF j <= k THEN 0 ELSE x[j - k]])

WordXor(x, y) == Word([j \in 1..32 |-> BitXor(x[j], y[j])])

\* (x & y) ^ (!x & z)
RefCh(x, y, z) ==
    Word([j \in 1..32 |-> BitXor(BitAnd(x[j], y[j]), BitAnd(BitNot(x[j]), z[j]))])

\* (x & y) ^ (x & z) ^ (y & z)
RefMaj(x, y, z) ==
    Word([j \in 1..32 |->
        BitXor(BitXor(BitAnd(x[j], y[j]), BitAnd(x[j], z[j])), BitAnd(y[j], z[j]))])

RefLowerSigma0(x) == WordXor(WordXor(Rotr(x, 7), Rotr(x, 18)), Shr(x, 3))
RefLowerSigma1(x) == WordXor(WordXor(Rotr(x, 17), Rotr(x, 19)), Shr(x, 10))
RefCapitalSigma0(x) == WordXor(WordXor(Rotr(x, 2), Rotr(x, 13)), Rotr(x, 22))
RefCapitalSigma1(x) == WordXor(WordXor(Rotr(x, 6), Rotr(x, 11)), Rotr(x, 25))

\* T1 = h + Sigma1(e) + Ch(e, f, g) + K[i] + W[i] and T2 = Sigma0(a) + Maj(a, b, c)
\* as u32 values, for working variables v = <<a, ..., h>>
RefT1(v, wi, i) ==
    U32Add(U32Add(U32Add(U32Add(WordValue(v[8]), WordValue(RefCapitalSigma1(v[5]))),
                         WordValue(RefCh(v[5], v[6], v[7]))),
                  SHA256_K[i + 1]),
           WordValue(wi))

RefT2(v) == U32Add(WordValue(RefCapitalSigma0(v[1])), WordValue(RefMaj(v[1], v[2], v[3])))

(***************************************************************************)
(* Properties of the engine.                                               *)
(***************************************************************************)
\* C1: whenever finalize() has run on a buffer of L bits, it completed, and the
\* buffer's length is the next multiple of 512 that leaves room for the 1 bit
\* and the 64-bit length field.
C1_FinalizePadsToBlockBoundary ==
    status # "Accumulating" =>
        /\ status = "Finalized"
        /\ Len(data) % 512 = 0
        /\ Len(data) = 512 * ((data_len + 1 + 64 + 511) \div 512)

\* C2: every finalize() step leaves the buffer equal to the L message bits,
\* one 1 bit, z zero bits (z the smallest with L + 1 + z = 448 mod 512) and the
\* 64-bit big-endian encoding of L.
C2_PaddedLayout ==
    [][n_finals' # n_finals =>
        data' = ((data \o <<1>>) \o Zeros(SmallestZeroPadding(Len(data))))
                    \o BigEndian64(Len(data))]_vars

(***************************************************************************)
(* Properties of the gadgets.                                              *)
(***************************************************************************)
\* the property every 2-operand adder has to meet on the harness inputs
ReturnsSum2 ==
    /\ IsWord(ret)
    /\ WordValue(ret) = U32Add(WordValue(opnd[1]), WordValue(opnd[2]))

\* 0xffffffff + 1: the carry crosses all 32 positions and the result wraps to 0
WrapsToZero ==
    /\ opnd[1] = AllOnes
    /\ opnd[2] = One
    /\ WordValue(ret) = <<0, 0>>

\* C3: add(a, b), the parallel Kogge-Stone adder, returns the big-endian word
\* of (a + b) mod 2^32.
C3_AddIsSumMod32 == pc = "add" => ReturnsSum2

C3_Witness == pc = "add" /\ WrapsToZero

\* C4: add_hancarlson_32_bits returns (a + b) mod 2^32, the result of the
\* ripple reference add_vanilla.
C4_HanCarlsonIsSumMod32 ==
    pc = "add_hancarlson_32_bits" =>
        ReturnsSum2 /\ ret = add_vanilla(opnd[1], opnd[2])

C4_Witness == pc = "add_hancarlson_32_bits" /\ WrapsToZero

\* C5: add_brentkung returns (a + b) mod 2^32, and the chain sum1 = a + b,
\* sum2 = c + d, sum3 = sum1 + sum2 returns (a + b + c + d) mod 2^32.
C5_BrentKungIsSumMod32 ==
    /\ pc = "add_brentkung" => ReturnsSum2
    /\ pc = "brentkung_sum_chain4" =>
        /\ IsWord(ret)
        /\ WordValue(ret) =
             U32Add(U32Add(WordValue(opnd[1]), WordValue(opnd[2])),
                    U32Add(WordValue(opnd[3]), WordValue(args[1])))

\* the chain on a = 0xffffffff, b = 1, where sum1 wraps to 0 and the result
\* is c + d
C5_Witness ==
    /\ pc = "brentkung_sum_chain4"
    /\ opnd[1] = AllOnes
    /\ opnd[2] = One
    /\ opnd[3] = AllOnes
    /\ WordValue(ret) = U32Add(WordValue(AllOnes), WordValue(args[1]))

\* C6: the serial Kogge-Stone adder add_koggestone_32_bits returns
\* (a + b) mod 2^32.
C6_KoggeStoneIsSumMod32 == pc = "add_koggestone_32_bits" => ReturnsSum2

C6_Witness == pc = "add_koggestone_32_bits" /\ WrapsToZero

\* C7: add_vanilla returns (a + b) mod 2^32, and bit_add_with_carry returns
\* sum = a xor b xor carry and carry_out = majority(a, b, carry).
C7_VanillaIsSumMod32 ==
    /\ pc = "add_vanilla" => ReturnsSum2
    /\ pc = "bit_add_with_carry" =>
        ret = <<BitXor(BitXor(args[1], args[2]), args[3]),
                BitMajority(args[1], args[2], args[3])>>

C7_Witness == pc = "add_vanilla" /\ WrapsToZero

\* C8: add_const(word, k) returns (word + k) mod 2^32, the result of the
\* general adder on the word and the bits of k; one iteration on a constant
\* bit 1 yields sum bit not(a) xor carry and carry (not(a) and carry) xor a, on
\* a constant bit 0 sum bit a xor carry and carry a and carry.
C8_AddConstIsSumMod32 ==
    /\ pc = "add_const" =>
        /\ IsWord(ret)
        /\ WordValue(ret) = U32Add(WordValue(opnd[1]), args[1])
        /\ ret = add(opnd[1], u32_to_bit(args[1]))
    /\ pc = "add_const_step" =>
        LET i == args[2]
            a == opnd[1][i + 1]
            carry == args[3]
        IN IF U32BitAt(args[1], 31 - i) = 1
           THEN /\ ret[1][i + 1] = BitXor(BitNot(a), carry)
                /\ ret[2] = BitXor(BitAnd(BitNot(a), carry), a)
           ELSE /\ ret[1][i + 1] = BitXor(a, carry)
                /\ ret[2] = BitAnd(a, carry)

\* 0x00000001 + 0xffffffff: every constant bit is 1 and the sum wraps to 0
C8_Witness ==
    /\ pc = "add_const"
    /\ opnd[1] = One
    /\ args[1] = <<\Hffff, \Hffff>>
    /\ WordValue(ret) = <<0, 0>>

\* C9: add_csa3(a, b, c) returns sum = a xor b xor c and carry =
\* ((a and b) xor (a and c) xor (b and c)) << 1, whose least-significant bit
\* (index 31) is 0; the chain of four CSA stages returns the words of the
\* chained bitwise formulas.
C9_Csa3IsXorAndShiftedMajority ==
    /\ pc = "add_csa3" =>
        /\ ret[1] = WordXor3(opnd[1], opnd[2], opnd[3])
        /\ ret[2] = WordCarry3(opnd[1], opnd[2], opnd[3])
        /\ ret[2][32] = 0
    /\ pc = "csa3_chain" =>
        LET sum1 == WordXor3(opnd[1], opnd[2], opnd[3])
            carry1 == WordCarry3(opnd[1], opnd[2], opnd[3])
            sum2 == WordXor3(args[1], args[2], args[3])
            carry2 == WordCarry3(args[1], args[2], args[3])
            sum3 == WordXor3(sum1, carry1, sum2)
            carry3 == WordCarry3(sum1, carry1, sum2)
            sum4 == WordXor3(sum3, carry3, carry2)
            carry4 == WordCarry3(sum3, carry3, carry2)
        IN ret = <<sum4, carry4>>

\* three all-ones words: every position carries, the carry out of the
\* most-significant position is dropped and the carry word is 0xfffffffe
C9_Witness ==
    /\ pc = "add_csa3"
    /\ opnd = <<AllOnes, AllOnes, AllOnes>>
    /\ ret[1] = AllOnes
    /\ WordValue(ret[2]) = <<\Hffff, \Hfffe>>

\* C10: add applied to the two outputs of add_csa3(a, b, c) returns
\* (a + b + c) mod 2^32.
C10_CsaThenAddIsSum3Mod32 ==
    pc = "csa3_then_add" =>
        /\ IsWord(ret)
        /\ WordValue(ret) =
             U32Add(U32Add(WordValue(opnd[1]), WordValue(opnd[2])), WordValue(opnd[3]))

\* 3 * 0xffffffff mod 2^32 = 0xfffffffd
C10_Witness ==
    /\ pc = "csa3_then_add"
    /\ opnd = <<AllOnes, AllOnes, AllOnes>>
    /\ WordValue(ret) = <<\Hffff, \Hfffd>>

\* C11: one round of the compression loop, in its CSA formulation, returns the
\* working variables of the direct-sum formulation: a = T1 + T2, e = d + T1,
\* and h, g, f, d, c, b are the old g, f, e, c, b, a; the chain of four CSA
\* stages and one add returns the sum of its six operands, the chain of two
\* CSA stages and one add the sum of its five.
C11_WallaceRoundIsDirectSum ==
    /\ pc = "compress_round" =>
        LET v == args[1]
            T1 == RefT1(v, args[2], args[3])
            T2 == RefT2(v)
        IN ret = <<u32_to_bit(U32Add(T1, T2)), v[1], v[2], v[3],
                   u32_to_bit(U32Add(WordValue(v[4]), T1)), v[5], v[6], v[7]>>
    /\ pc = "wallace_bk_sum_chain" =>
        LET sum1 == U32Add(WordValue(opnd[1]), WordValue(opnd[2]))
            sum2 == U32Add(WordValue(opnd[3]), WordValue(args[1]))
            sum3 == U32Add(sum1, sum2)
            sum4 == U32Add(WordValue(args[2]), WordValue(args[3]))
        IN /\ IsWord(ret[1]) /\ IsWord(ret[2])
           /\ WordValue(ret[1]) = U32Add(sum3, WordValue(args[4]))
           /\ WordValue(ret[2]) = U32Add(sum3, sum4)

\* the last round on a = e = h = 0xffffffff, where the sums wrap
C11_Witness ==
    /\ pc = "compress_round"
    /\ opnd = <<AllOnes, AllOnes, AllOnes>>
    /\ args[3] = 63
    /\ WordValue(ret[5]) = U32Add(WordValue(args[1][4]), RefT1(args[1], args[2], 63))
    /\ ret[6] = AllOnes

\* the eight u32 values of a 256-bit digest, each as <<high 16 bits, low 16 bits>>
DigestWords(d) == [j \in 1..8 |-> WordValue(SubSeq(d, 32 * (j - 1) + 1, 32 * j))]

\* e3b0c442 98fc1c14 9afbf4c8 996fb924 27ae41e4 649b934c a495991b 7852b855
Sha256OfEmpty ==
    <<<<\He3b0, \Hc442>>, <<\H98fc, \H1c14>>, <<\H9afb, \Hf4c8>>, <<\H996f, \Hb924>>,
      <<\H27ae, \H41e4>>, <<\H649b, \H934c>>, <<\Ha495, \H991b>>, <<\H7852, \Hb855>>>>

\* ba7816bf 8f01cfea 414140de 5dae2223 b00361a3 96177a9c b410ff61 f20015ad
Sha256OfAbc ==
    <<<<\Hba78, \H16bf>>, <<\H8f01, \Hcfea>>, <<\H4141, \H40de>>, <<\H5dae, \H2223>>,
      <<\Hb003, \H61a3>>, <<\H9617, \H7a9c>>, <<\Hb410, \Hff61>>, <<\Hf200, \H15ad>>>>

\* the engine was fed exactly `bits`, in one update() or none, and finalized
FinalizedOn(bits) ==
    /\ status = "Finalized"
    /\ n_finals = 1
    /\ n_updates = (IF bits = <<>> THEN 0 ELSE 1)
    /\ data_len = Len(bits)
    /\ SubSeq(data, 1, data_len) = bits

\* C12: an engine fed no bits and finalized returns the 256 bits of
\* e3b0c442...7852b855, an engine fed the 24 bits of "abc" those of
\* ba7816bf...f20015ad.
C12_EndToEndVectors ==
    /\ FinalizedOn(<<>>) => Len(digest) = 256 /\ DigestWords(digest) = Sha256OfEmpty
    /\ FinalizedOn(AbcBits) => Len(digest) = 256 /\ DigestWords(digest) = Sha256OfAbc

C12_Witness == FinalizedOn(AbcBits) /\ DigestWords(digest)[8] = <<\Hf200, \H15ad>>

\* C13: once finalize() has returned, the engine takes no further update() or
\* finalize(): no step leaves a Finalized state, and finalize() runs at most
\* once.
C13_FinalizedIsTerminal == [][status # "Finalized" /\ n_finals' <= 1]_vars

\* C14: every finalize() returns exactly 256 bits, the eight state words
\* H0 .. H7 in index order, each most-significant bit first.
C14_DigestIsStateWords ==
    [][n_finals' # n_finals =>
        /\ status' = "Finalized"
        /\ Len(digest') = 256
        /\ LET H == compress_chunks(init_state, data', 0)
           IN \A j \in 1..8 : SubSeq(digest', 32 * (j - 1) + 1, 32 * j) = H[j]]_vars

\* new(); update(bits); finalize() on a fresh engine
one_shot(bits) ==
    flatten(compress_chunks(init_state, padding(extend(<<>>, bits)), 0))

\* C15: the digest depends only on the sequence of bits fed: before
\* finalize() the buffer holds the bits of all update() calls in order, and
\* the digest is that of a fresh engine fed the same bits in one update().
C15_DigestDependsOnBitsOnly ==
    /\ n_finals = 0 => data = fed
    /\ status = "Finalized" /\ n_finals = 1 => digest = one_shot(fed)

\* a message fed in two update() calls
C15_Witness ==
    /\ status = "Finalized"
    /\ n_finals = 1
    /\ n_updates = 2
    /\ Len(fed) = 3
    /\ digest = one_shot(fed)

\* the bit of weight 2^p of the u32 a word stands for
WeightBit(w, p) == U32BitAt(WordValue(w), p)

\* C16: rotate_right(x, k) is the 32-bit rotate-right of x by k: the bit of
\* weight 2^p of the result is the bit of weight 2^((p + k) mod 32) of x.  The
\* slice concatenation of gf2_utils and the index mapping of check_sigma return
\* the same word, and check_sigma's capital_sigma0 is ROTR2 ^ ROTR13 ^ ROTR22.
C16_RotateRightIsStandard ==
    /\ pc = "rotate_right" =>
        /\ IsWord(ret)
        /\ \A p \in 0..31 : WeightBit(ret, p) = WeightBit(opnd[1], (p + args[1]) % 32)
        /\ ret = check_sigma_rotate_right(opnd[1], args[1])
    /\ pc = "check_sigma_rotate_right" =>
        /\ IsWord(ret)
        /\ \A p \in 0..31 : WeightBit(ret, p) = WeightBit(opnd[1], (p + args[1]) % 32)
    /\ pc = "check_sigma_capital_sigma0" => ret = RefCapitalSigma0(opnd[1])

\* 0x00000001 rotated right by 31 is 0x00000002
C16_Witness ==
    /\ pc = "rotate_right"
    /\ args[1] = 31
    /\ opnd[1] = One
    /\ WordValue(ret) = <<0, 2>>

\* C17 as stated: new[i] = word[(i + k) mod 32], index 0 the most-significant bit.
C17_RotateReindexForward ==
    pc = "rotate_right" =>
        \A i \in 0..31 : ret[i + 1] = opnd[1][((i + args[1]) % 32) + 1]

\* C17 as amended: new[i] = word[(i - k) mod 32], index 0 the most-significant
\* bit.
C17_RotateReindexBackward ==
    pc = "rotate_right" =>
        \A i \in 0..31 : ret[i + 1] = opnd[1][((i + 32 - args[1]) % 32) + 1]

\* 0x00000001 rotated by 1: the bit of index 31 arrives at index 0
C17_Witness ==
    /\ pc = "rotate_right"
    /\ args[1] = 1
    /\ opnd[1] = One
    /\ ret[1] = 1
    /\ ret[32] = 0

\* C18: shift_right(x, k) is x >> k: 32 entries, the top k indices hold 0 and
\* index i >= k holds x[i - k].
C18_ShiftRightIsLogical ==
    pc = "shift_right" =>
        /\ IsWord(ret)
        /\ \A i \in 0..31 :
             ret[i + 1] = (IF i < args[1] THEN 0 ELSE opnd[1][i - args[1] + 1])
        /\ \A p \in 0..31 :
             WeightBit(ret, p) =
                (IF p + args[1] <= 31 THEN WeightBit(opnd[1], p + args[1]) ELSE 0)

\* 0x80000000 >> 31 = 1
C18_Witness ==
    /\ pc = "shift_right"
    /\ args[1] = 31
    /\ WordValue(opnd[1]) = <<\H8000, 0>>
    /\ WordValue(ret) = <<0, 1>>

\* C19: ch, maj and the four sigma gadgets return the words of their bitwise
\* formulas, the complement in ch being 1 - bit.
C19_GadgetsAreBitwiseFormulas ==
    /\ pc = "ch" => ret = RefCh(opnd[1], opnd[2], opnd[3])
    /\ pc = "maj" => ret = RefMaj(opnd[1], opnd[2], opnd[3])
    /\ pc = "lower_case_sigma0" => ret = RefLowerSigma0(opnd[1])
    /\ pc = "lower_case_sigma1" => ret = RefLowerSigma1(opnd[1])
    /\ pc = "capital_sigma0" => ret = RefCapitalSigma0(opnd[1])
    /\ pc = "capital_sigma1" => ret = RefCapitalSigma1(opnd[1])

\* ch(0, 1, 0xffffffff): every bit is chosen from z through the complement of x
C19_Witness ==
    /\ pc = "ch"
    /\ WordValue(opnd[1]) = <<0, 0>>
    /\ opnd[2] = One
    /\ opnd[3] = AllOnes
    /\ ret = AllOnes

RECURSIVE SumValues(_, _)
\* (vs[1] + ... + vs[n]) mod 2^32 as a u32 value
SumValues(vs, n) ==
    IF n = 0 THEN <<0, 0>> ELSE U32Add(SumValues(vs, n - 1), WordValue(vs[n]))

\* C20: sum_all of n >= 1 words returns their sum mod 2^32, every operand
\* counted once, and the single operand itself when n = 1.
C20_SumAllIsSumMod32 ==
    pc = "sum_all" =>
        /\ IsWord(ret)
        /\ WordValue(ret) = SumValues(args[1], Len(args[1]))
        /\ Len(args[1]) = 1 => ret = args[1][1]

\* five words, an odd count at the first and the second level of the tree
C20_Witness ==
    /\ pc = "sum_all"
    /\ Len(args[1]) = 5
    /\ opnd[1] = AllOnes
    /\ opnd[2] = One
    /\ WordValue(ret) = SumValues(args[1], 5)

\* the smallest r with 2^r >= n
CeilLog2(n) == CHOOSE r \in 0..31 : 2 ^ r >= n /\ (r = 0 \/ 2 ^ (r - 1) < n)

\* C21: every round of sum_all's loop runs on a count m > 1, adds floor(m / 2)
\* pairs, carries the unmatched last operand unchanged when m is odd and
\* leaves ceil(m / 2) active operands; the loop ends after exactly
\* ceil(log2 n) rounds.
C21_SumAllRoundsAreCeilLog2 ==
    [][/\ pc = "sum_all_while" /\ pc' = "sum_all_while" =>
            LET m == args[2]
                half == args[2] \div 2
            IN /\ m > 1
               /\ args'[2] = (m + 1) \div 2
               /\ args'[3] = args[3] + 1
               /\ \A i \in 1..half :
                    WordValue(args'[1][i]) =
                        U32Add(WordValue(args[1][i]), WordValue(args[1][i + half]))
               /\ m % 2 = 1 => args'[1][half + 1] = args[1][m]
       /\ pc' = "sum_all_returned" =>
            /\ args[2] = 1
            /\ args[3] = CeilLog2(args[4])
            /\ ret' = args[1][1]]_vars

\* five operands: counts 5, 3, 2, 1 and three rounds
C21_Witness ==
    /\ pc = "sum_all_returned"
    /\ args[4] = 5
    /\ args[3] = 3
    /\ ret = sum_all(Summands(opnd[3], 5))

\* C22: rotate_right and shift_right called with an offset outside [0, 31]
\* return no word and allocate no constant before they are rejected.
C22_OffsetBeyondWordIsRejected ==
    pc \in {"rotate_right_beyond", "shift_right_beyond"} =>
        /\ ret[1] = Panic
        /\ ret[2] = 0

\* the number a little-endian sequence of n bits stands for
LittleEndianValue(bits, n) == BitsValue([j \in 1..n |-> bits[n + 1 - j]], n)

\* the block returned the 4 low bits and bit 4 of a + b + carry_in
BlockReturnsSum ==
    /\ Len(ret[1]) = 4
    /\ LittleEndianValue(ret[1], 4) + 16 * ret[2] =
         LittleEndianValue(args[1], 4) + LittleEndianValue(args[2], 4) + args[3]

\* C28: han_carlson_adder_4_bits returns the 4 sum bits and the carry-out of
\* a + b + carry_in, and add_hancarlson, the chain of 8 such blocks, returns
\* (a + b) mod 2^32.
C28_HanCarlsonBlockIsSum ==
    /\ pc = "han_carlson_adder_4_bits" => BlockReturnsSum
    /\ pc = "add_hancarlson" => ReturnsSum2

\* C23: every adder that add() can select, and add_vanilla, returns the word
\* the selected one returns, on the input words and on the outputs of a
\* carry-save stage.
C23_AddersAreInterchangeable ==
    /\ pc = "add_selected" => ret = add(opnd[1], opnd[2])
    /\ pc = "csa3_then_add_selected" => ret = csa3_then_add(opnd[1], opnd[2], opnd[3])

(***************************************************************************)
(* C24: a finalize() whose padding completes runs one compression per      *)
(* 512-bit block of the padded buffer, in buffer order: the loop starts    *)
(* from the initial constants with no block consumed (in every finalize,   *)
(* a second one on the same instance included), each step compresses the   *)
(* next block from the state the previous step left, and the loop ends     *)
(* when exactly Len(buffer) / 512 blocks were consumed, the digest being  *)
(* the state the last step left.                                           *)
(***************************************************************************)
C24_OneCompressionPerBlock ==
    [][/\ (pc = "off" /\ pc' = "chunks") =>
              /\ args' = <<init_state, 0>>
              /\ Len(data') % 512 = 0
       /\ (pc = "chunks" /\ pc' = "chunks") =>
              /\ args'[2] = args[2] + 1
              /\ args[2] < Len(data) \div 512
              /\ args'[1] = sha256_compress(args[1],
                                SubSeq(data, args[2] * 512 + 1, (args[2] + 1) * 512))
              /\ data' = data
       /\ (pc = "chunks" /\ pc' = "off") =>
              /\ args[2] = Len(data) \div 512
              /\ digest' = flatten(args[1])]_vars

\* a second finalize() on one instance has consumed both blocks of its buffer
\* and returned the digest of the whole call
C24_Witness ==
    /\ pc = "off"
    /\ status = "Finalized"
    /\ n_finals = 2
    /\ Len(data) = 1024
    /\ args[2] = 2
    /\ digest = flatten(compress_chunks(init_state, data, 0))

(***************************************************************************)
(* C25: a sha256_compress call runs exactly 64 rounds: the working         *)
(* variables start as the pre-block state, every round advances the round  *)
(* index by one, and the call returns only at index 64; it returns, for    *)
(* each of the 8 words, (pre-block word + final working variable) mod      *)
(* 2^32, which is what the call as a whole computes.  No step changes the  *)
(* pre-block state it reads, the input block or the engine's buffer.       *)
(***************************************************************************)
C25_CompressIs64RoundsThenAdd ==
    [][/\ (pc = "schedule" /\ pc' = "rounds") =>
              /\ args'[4] = args[1]
              /\ args'[5] = 0
       /\ (pc = "rounds" /\ pc' = "rounds") =>
              /\ args[5] < 64
              /\ args'[5] = args[5] + 1
       /\ (pc = "rounds" /\ pc' = "compressed") =>
              /\ args[5] = 64
              /\ \A j \in 1..8 :
                     /\ IsWord(ret'[j])
                     /\ WordValue(ret'[j])
                            = U32Add(WordValue(args[1][j]), WordValue(args[4][j]))
              /\ ret' = sha256_compress(args[1], args[2])
       /\ (pc \in {"schedule", "rounds"}) =>
              /\ args'[1] = args[1]
              /\ args'[2] = args[2]
              /\ data' = data]_vars

\* the first block of "abc" has been compressed: the returned state is the
\* digest of "abc"
C25_Witness ==
    /\ pc = "compressed"
    /\ args[5] = 64
    /\ args[1] = init_state
    /\ args[2] = padding(AbcBits)
    /\ DigestWords(flatten(ret)) = Sha256OfAbc

(***************************************************************************)
(* C26: the message schedule starts as the 16 words of the block, W[i]     *)
(* being bits 32*i .. 32*i+31 in order; each later step appends one word   *)
(* W[i] = (sigma1(W[i-2]) + W[i-7] + sigma0(W[i-15]) + W[i-16]) mod 2^32   *)
(* to the entries W[0..i-1], which it leaves as they are; the compression  *)
(* loop starts on the 64 words the whole schedule loop computes.           *)
(***************************************************************************)
C26_MessageSchedule ==
    [][/\ (pc = "ready" /\ pc' = "schedule") =>
              /\ Len(args'[3]) = 16
              /\ \A i \in 0..15 : \A j \in 0..31 :
                     args'[3][i + 1][j + 1] = args'[2][32 * i + j + 1]
       /\ (pc = "schedule" /\ pc' = "schedule") =>
              LET w == args[3]
                  i == Len(w)
              IN /\ i = args[5]
                 /\ Len(args'[3]) = i + 1
                 /\ SubSeq(args'[3], 1, i) = w
                 /\ IsWord(args'[3][i + 1])
                 /\ WordValue(args'[3][i + 1])
                        = U32Add(U32Add(WordValue(RefLowerSigma1(w[i - 2 + 1])),
                                        WordValue(w[i - 7 + 1])),
                                 U32Add(WordValue(RefLowerSigma0(w[i - 15 + 1])),
                                        WordValue(w[i - 16 + 1])))
       /\ (pc = "schedule" /\ pc' = "rounds") =>
              /\ Len(args'[3]) = 64
              /\ args'[3] = message_schedule(input_words(args[2]), 64)]_vars

\* the schedule of the block of "abc" is complete; W[16] is not a zero word
C26_Witness ==
    /\ pc = "rounds"
    /\ args[2] = padding(AbcBits)
    /\ Len(args[3]) = 64
    /\ args[3][1] = SubSeq(args[2], 1, 32)
    /\ WordValue(args[3][17]) # <<0, 0>>

(***************************************************************************)
(* C27, as stated: in a doubling step of the parallel Kogge-Stone adder    *)
(* with shift s, the little-endian positions i < s keep both bits,         *)
(* (g_next[i], p_next[i]) = (g[i], p[i]).                                  *)
(***************************************************************************)
C27_LowPositionsKeepBothBits ==
    [][(pc = "prefix_steps" /\ pc' = "prefix_steps") =>
           \A i \in 0..(Head(args[3]) - 1) :
               /\ args'[1][i + 1] = args[1][i + 1]
               /\ args'[2][i + 1] = args[2][i + 1]]_vars

(***************************************************************************)
(* C27, amended: in a doubling step with shift s the positions i < s keep  *)
(* g, and p becomes 0 there (p and a zero-filled shift of p), where the    *)
(* serial variant's round keeps both g and p; the generate bits of the     *)
(* two variants are nevertheless equal at every position after the step,   *)
(* and the steps run the shifts 1, 2, 4, 8, 16 in this order before the    *)
(* sum is returned.                                                        *)
(***************************************************************************)
C27_LowPositionsKeepGenerateOnly ==
    [][/\ (pc = "prefix_steps" /\ pc' = "prefix_steps") =>
              LET s == Head(args[3])
                  serial == koggestone_round(args[1], args[2], s)
              IN /\ s = 2 ^ (5 - Len(args[3]))
                 /\ \A i \in 0..(s - 1) :
                        /\ args'[1][i + 1] = args[1][i + 1]
                        /\ args'[2][i + 1] = 0
                        /\ serial[1][i + 1] = args[1][i + 1]
                        /\ serial[2][i + 1] = args[2][i + 1]
                 /\ args'[1] = serial[1]
       /\ (pc = "prefix_steps" /\ pc' = "prefix_steps_returned") =>
              ret' = add_koggestone_32_bits_prallel(opnd[1], opnd[2])]_vars

\* after the first step (shift 1) the propagate bit of position 0, which was
\* 1, is 0
C27_Witness ==
    /\ pc = "prefix_steps"
    /\ Len(args[3]) = 4
    /\ args[4][1] = 1
    /\ args[2][1] = 0

RECURSIVE CombineRange(_, _, _)
\* the combination, by carry_combine, of the positions i, i - 1, ..., 0
CombineRange(g, p, i) ==
    IF i = 0 THEN <<g[1], p[1]>>
    ELSE LET lo == CombineRange(g, p, i - 1)
         IN Do(<<lo, carry_combine(<<g[i + 1], p[i + 1]>>, lo)>>)

RECURSIVE RefCarryOut(_, _, _, _)
\* the carry out of bit i of a + b + carry_in, a and b little-endian
RefCarryOut(a, b, carry_in, i) ==
    IF i < 0 THEN carry_in
    ELSE BitMajority(a[i + 1], b[i + 1], RefCarryOut(a, b, carry_in, i - 1))

(***************************************************************************)
(* C29: brent_kung_adder_4_bits returns, for all 4-bit a, b and both       *)
(* carry_in, the 4 low bits and bit 4 of a + b + carry_in; its sum bits    *)
(* are p[i] xor c[i] and its carry-out is c[4], where c[0] = carry_in and  *)
(* c[i+1] = G[0..i] xor (p[0] ... p[i] and carry_in).                      *)
(***************************************************************************)
C29_BrentKungBlockIsSum ==
    pc = "brent_kung_adder_4_bits" =>
        LET a == args[1]
            b == args[2]
            carry_in == args[3]
            g == SubSeq([j \in 1..4 |-> BitAnd(a[j], b[j])], 1, 4)
            p == SubSeq([j \in 1..4 |-> BitXor(a[j], b[j])], 1, 4)
            c == [i \in 0..4 |->
                    IF i = 0 THEN carry_in
                    ELSE LET GP0i == CombineRange(g, p, i - 1)
                         IN BitXor(GP0i[1], BitAnd(GP0i[2], carry_in))]
        IN /\ BlockReturnsSum
           /\ \A i \in 0..3 : ret[1][i + 1] = BitXor(p[i + 1], c[i])
           /\ ret[2] = c[4]
           /\ \A i \in 0..3 : c[i + 1] = RefCarryOut(a, b, carry_in, i)

\* 15 + 0 + 1: the carry-in runs through all four positions
C29_Witness ==
    /\ pc = "brent_kung_adder_4_bits"
    /\ args = <<<<1, 1, 1, 1>>, <<0, 0, 0, 0>>, 1>>
    /\ ret = <<<<0, 0, 0, 0>>, 1>>

(***************************************************************************)
(* C30: the carry combine operator is associative for all bit values; the  *)
(* prefix loops of the serial Kogge-Stone adder (every position), of the   *)
(* Han-Carlson adder (the even positions) and of prefix_step (the generate *)
(* bits) compute the combination of the positions 0..i, and with           *)
(* g = a and b, p = a xor b its g-component is the carry out of bit i of   *)
(* a + b.                                                                  *)
(***************************************************************************)
C30_CarryCombineIsAssociative ==
    /\ pc = "carry_combine" => ret[1] = ret[2]
    /\ pc = "carry_prefixes" =>
           LET a == args[1]
               b == args[2]
               g == Word([j \in 1..32 |-> BitAnd(a[j], b[j])])
               p == Word([j \in 1..32 |-> BitXor(a[j], b[j])])
           IN \A i \in 0..31 :
                  LET GP0i == CombineRange(g, p, i)
                  IN /\ <<ret[1][1][i + 1], ret[1][2][i + 1]>> = GP0i
                     /\ (i % 2 = 0) => <<ret[2][1][i + 1], ret[2][2][i + 1]>> = GP0i
                     /\ ret[3][1][i + 1] = GP0i[1]
                     /\ GP0i[1] = RefCarryOut(a, b, 0, i)

\* three pairs for which both groupings give (1, 0), and the prefixes of
\* 0xffffffff + 1, where the carry runs out of every position
C30_Witness ==
    \/ /\ pc = "carry_combine"
       /\ args = <<<<0, 1>>, <<0, 1>>, <<1, 0>>>>
       /\ ret = <<<<1, 0>>, <<1, 0>>>>
    \/ /\ pc = "carry_prefixes"
       /\ args = <<reverse(AllOnes), reverse(One)>>
       /\ \A i \in 0..31 : ret[1][1][i + 1] = 1

====
